---- MODULE Spec2Model ----
(***************************************************************************)
(* Model of the credential bootstrap chain (core/login.py, mys_login) and  *)
(* of the session data it mutates (models/data_models.py, BBSCookies,      *)
(* UserAccount, ConfigDataManager).                                         *)
(*                                                                         *)
(* mys_login is a coroutine: it runs atomically between two awaits.  The   *)
(* model has one action per resumption: the awaited call returns a result  *)
(* drawn from the outcomes the platform can produce, and the code up to    *)
(* the next await (or the return) runs.                                    *)
(***************************************************************************)
EXTENDS Integers, Sequences, FiniteSets, TLC

(***************************************************************************)
(* Bounds                                                                  *)
(***************************************************************************)
MaxLogins == 2
MaxWaitTime == 3
MaxInterval == 3
MaxSigners == 2
\* accounts (cookies) handed to run_task
MaxAccounts == 3
\* log_* calls made on one TaskLogger
MaxLogCalls == 4
\* users of one manually_game_sign / manually_bbs_sign run
MaxUsers == 3
\* calls of mys_login followed to their end under fair scheduling
MaxLiveLogins == 1
\* parts of a text returned by a task function (execute_task_with_logging)
MaxStrLen == 3
\* accounts of the user whose notes are checked
MaxNoteAccounts == 2
\* servers listed in config.push_servers
MaxServers == 3

(***************************************************************************)
(* Python values.  Every value is a tuple so that values of different      *)
(* kinds compare unequal: None is the empty tuple, a string token is       *)
(* <<prefix, serial>>.                                                     *)
(***************************************************************************)
None == <<>>

\* the empty string
EmptyStr == <<"", 0>>

\* bool(v) of an Optional[str]
Truthy(v) == v # None /\ v # EmptyStr

\* account ids the platform can confirm a scan for
Uids == {<<"uid", 1>>, <<"uid", 2>>}

\* dict keys of ConfigData.users and UserData.accounts (a Python dict
\* accepts None as a key)
Keys == Uids \cup {None}

\* str.startswith("v2_") on a token value
StartsWithV2(value) == value[1] = "v2_"

\* utils.generate_device_id: a fresh uuid4; k-th call inside bootstrap n
generate_device_id(n, k) == <<"dev", n, k>>

(***************************************************************************)
(* API status objects: the class name and the set of flags that are True.  *)
(***************************************************************************)
Status(cls, flags) == [cls |-> cls, flags |-> flags]

\* BaseApiStatus.__bool__
StatusBool(status) == "success" \in status.flags

Flag(status, name) == name \in status.flags

(***************************************************************************)
(* BBSCookies                                                              *)
(***************************************************************************)
CookieFields == {"stuid", "ltuid", "account_id", "login_uid", "stoken_v1",
                 "stoken_v2", "cookie_token", "login_ticket", "ltoken", "mid"}

\* BBSCookies(): every field defaults to None
NewCookies == [f \in CookieFields |-> None]

\* BBSCookies.bbs_uid (getter)
CookiesBbsUid(c) ==
    IF Truthy(c.stuid) THEN c.stuid
    ELSE IF Truthy(c.ltuid) THEN c.ltuid
    ELSE IF Truthy(c.account_id) THEN c.account_id
    ELSE IF Truthy(c.login_uid) THEN c.login_uid
    ELSE None

\* BBSCookies.bbs_uid (setter)
SetBbsUid(c, value) ==
    [c EXCEPT !.stuid = value, !.ltuid = value,
              !.account_id = value, !.login_uid = value]

\* BBSCookies.stoken (getter)
CookiesStoken(c) == IF Truthy(c.stoken_v1) THEN c.stoken_v1 ELSE c.stoken_v2

\* BBSCookies.stoken (setter)
SetStoken(c, value) ==
    IF StartsWithV2(value) THEN [c EXCEPT !.stoken_v2 = value]
    ELSE [c EXCEPT !.stoken_v1 = value]

\* BBSCookies.is_correct
is_correct(c) ==
    Truthy(CookiesBbsUid(c)) /\ Truthy(CookiesStoken(c)) /\ Truthy(c.cookie_token)

\* a plausible slip in update: every field of the argument is copied,
\* unset ones included
UpdateCopyAll(c, cookies) == cookies

\* BBSCookies.update, object branch: only the fields of the argument that
\* are set overwrite the receiver's
Update(c, cookies) ==
    [f \in CookieFields |->
        IF cookies[f] # None /\ cookies[f] # EmptyStr THEN cookies[f] ELSE c[f]]

(***************************************************************************)
(* UserAccount, UserData, ConfigData.users                                 *)
(***************************************************************************)
\* UserAccount(phone_number=None, cookies=..., device_id_ios=...,
\*             device_id_android=...): device_fp defaults to None
UserAccount(cookies, device_id_ios, device_id_android) ==
    [phone_number |-> None, cookies |-> cookies,
     device_id_ios |-> device_id_ios, device_id_android |-> device_id_android,
     device_fp |-> None]

EmptyDict == [k \in {} |-> None]

\* UserData(): notifications on, no accounts
UserData == [enable_notice |-> TRUE, accounts |-> EmptyDict]

\* dict.__setitem__ / dict.update with one key
DictSet(d, k, v) == (k :> v) @@ d

(***************************************************************************)
(* Platform endpoints (services/common.py).  Each returns a pair           *)
(* (status, payload); the payload is None when the status is a failure.    *)
(***************************************************************************)
Endpoints == {"fetch_game_token_qrcode", "query_game_token_qrcode",
              "get_device_fp", "get_token_by_game_token",
              "get_ltoken_by_stoken", "get_cookie_token_by_stoken",
              "get_cookie_token_by_game_token"}

\* QR issuance: a ticket, or no ticket with incorrect_return
FetchResults(n) ==
    { [status |-> Status("BaseApiStatus", {"success"}), ret |-> <<"ticket", n>>],
      [status |-> Status("BaseApiStatus", {"incorrect_return"}), ret |-> None] }

\* scan-status poll: confirmed (account id + game token), pending (not yet
\* scanned / scanned but not confirmed), ticket expired, transport error
QueryResults(n) ==
    { [status |-> Status("QueryGameTokenQrCodeStatus", {"success"}),
       ret |-> <<u, <<"game_token", n>>>>] : u \in Uids }
    \cup
    { [status |-> Status("QueryGameTokenQrCodeStatus", {f}), ret |-> None] :
        f \in {"qrcode_init", "qrcode_scanned", "qrcode_expired", "network_error"} }

\* fingerprint exchange for one device id
FpResults(dev) ==
    { [status |-> Status("GetFpStatus", {"success"}), fp |-> <<"fp", dev[2], dev[3]>>],
      [status |-> Status("GetFpStatus", {"invalid_arguments"}), fp |-> None] }

GetCookieFailures ==
    { Status("GetCookieStatus", {f}) : f \in {"login_expired", "network_error"} }

\* primary exchange: a super-token in v2 or in v1 form, with mid and account id
TokenResults(uid, n) ==
    { [status |-> Status("GetCookieStatus", {"success"}),
       cookies |-> [SetStoken(SetBbsUid(NewCookies, uid), tok)
                        EXCEPT !.mid = <<"mid", n>>]] :
        tok \in {<<"v2_", n>>, <<"v1", n>>} }
    \cup { [status |-> st, cookies |-> None] : st \in GetCookieFailures }

\* derived exchanges: the one new token, or a failure
LtokenResults(n) ==
    { [status |-> Status("GetCookieStatus", {"success"}),
       cookies |-> [NewCookies EXCEPT !.ltoken = <<"ltoken", n>>]] }
    \cup { [status |-> st, cookies |-> None] : st \in GetCookieFailures }

CookieTokenResults(n) ==
    { [status |-> Status("GetCookieStatus", {"success"}),
       cookies |-> [NewCookies EXCEPT !.cookie_token = <<"cookie_token", n>>]] }
    \cup { [status |-> st, cookies |-> None] : st \in GetCookieFailures }

(***************************************************************************)
(* mys_login: pure parts                                                   *)
(***************************************************************************)
\* Python round(): nearest integer, ties to the even one, of w / i
Round(w, i) ==
    LET q == w \div i
        r == w % i
    IN  IF 2 * r < i THEN q
        ELSE IF 2 * r > i THEN q + 1
        ELSE IF q % 2 = 0 THEN q ELSE q + 1

\* the quotient rounded up instead of to nearest
QueryTimesCeil(p) ==
    (p.qrcode_wait_time + p.qrcode_query_interval - 1) \div p.qrcode_query_interval

\* qrcode_query_times = round(qrcode_wait_time / qrcode_query_interval)
QueryTimes(p) == Round(p.qrcode_wait_time, p.qrcode_query_interval)

\* the ticket test dropped: the loop is entered whatever QR issuance returned
HasTicketAlways(ret) == TRUE

\* if fetch_qrcode_ret:
HasTicket(ret) == ret # None

\* the scan test dropped: the account is bound whatever the loop produced
ScanConfirmedAlways(uid, gt) == TRUE

\* if bbs_uid and game_token:
ScanConfirmed(uid, gt) == Truthy(uid) /\ Truthy(gt)

\* the write dropped: the file keeps what it held
save_config_skipped(config_users, file_users) == file_users

\* ConfigDataManager.save_config: the file now holds a dump of config_data
save_config(config_users, file_users) == config_users

\* the failed ltoken exchange requested again
AfterLtokenRetry(status) ==
    IF StatusBool(status) THEN "get_cookie_token_by_stoken"
    ELSE "get_ltoken_by_stoken"

\* the cookie-token exchange nested under the ltoken success test
AfterLtokenNested(status) ==
    IF StatusBool(status) THEN "get_cookie_token_by_stoken" ELSE "report"

\* after the ltoken exchange the cookie-token exchange is requested whatever
\* the ltoken status
AfterLtoken(status) == "get_cookie_token_by_stoken"

\* if account.cookies.stoken_v2: ... else: ...
DerivedPath(account_cookies) ==
    IF Truthy(account_cookies.stoken_v2) THEN "get_ltoken_by_stoken"
    ELSE "get_cookie_token_by_game_token"

\* a new account object, with new device ids, made on every bootstrap
BindAccountAnew(us, uid, dev_ios, dev_android) ==
    LET cookies == SetBbsUid(NewCookies, uid)
        us1 == IF uid \notin DOMAIN us THEN DictSet(us, uid, UserData) ELSE us
        user == us1[uid]
    IN  DictSet(us1, uid,
            [user EXCEPT !.accounts =
                DictSet(@, uid, UserAccount(cookies, dev_ios, dev_android))])

\* lines 76-96: create the user and the account when absent, else merge the
\* account id into the stored cookies
BindAccount(us, uid, dev_ios, dev_android) ==
    LET cookies == SetBbsUid(NewCookies, uid)
        us1 == IF uid \notin DOMAIN us THEN DictSet(us, uid, UserData) ELSE us
        user == us1[uid]
    IN  IF uid \notin DOMAIN user.accounts
        THEN DictSet(us1, uid,
                 [user EXCEPT !.accounts =
                     DictSet(@, uid, UserAccount(cookies, dev_ios, dev_android))])
        ELSE [us1 EXCEPT ![uid].accounts[uid].cookies = Update(@, cookies)]

\* account.cookies.update(cookies) on the account of the bootstrap
UpdateAccount(us, uid, cookies) ==
    [us EXCEPT ![uid].accounts[uid].cookies = Update(@, cookies)]

\* the missing super-token tested before the missing cookie-token
NoticeStokenFirst(status) ==
    (IF status.cls = "QueryGameTokenQrCodeStatus" /\ Flag(status, "qrcode_expired")
     THEN <<"qrcode_expired">> ELSE <<>>)
    \o
    (IF status.cls = "GetCookieStatus"
     THEN IF Flag(status, "missing_bbs_uid") THEN <<"missing_bbs_uid">>
          ELSE IF Flag(status, "missing_login_ticket") THEN <<"missing_login_ticket">>
          ELSE IF Flag(status, "missing_stoken") THEN <<"missing_stoken">>
          ELSE IF Flag(status, "missing_cookie_token") THEN <<"missing_cookie_token">>
          ELSE IF Flag(status, "missing_stoken_v1") THEN <<"missing_stoken_v1">>
          ELSE IF Flag(status, "missing_stoken_v2") THEN <<"missing_stoken_v2">>
          ELSE IF Flag(status, "missing_mid") THEN <<"missing_mid">>
          ELSE <<>>
     ELSE <<>>)
    \o
    (IF Flag(status, "login_expired") THEN <<"login_expired">>
     ELSE IF Flag(status, "incorrect_return") THEN <<"incorrect_return">>
     ELSE IF Flag(status, "network_error") THEN <<"network_error">>
     ELSE <<"unknown">>)

\* the cause texts appended to notice_text for a falsy status, in order
Notice(status) ==
    (IF status.cls = "QueryGameTokenQrCodeStatus" /\ Flag(status, "qrcode_expired")
     THEN <<"qrcode_expired">> ELSE <<>>)
    \o
    (IF status.cls = "GetCookieStatus"
     THEN IF Flag(status, "missing_bbs_uid") THEN <<"missing_bbs_uid">>
          ELSE IF Flag(status, "missing_login_ticket") THEN <<"missing_login_ticket">>
          ELSE IF Flag(status, "missing_cookie_token") THEN <<"missing_cookie_token">>
          ELSE IF Flag(status, "missing_stoken") THEN <<"missing_stoken">>
          ELSE IF Flag(status, "missing_stoken_v1") THEN <<"missing_stoken_v1">>
          ELSE IF Flag(status, "missing_stoken_v2") THEN <<"missing_stoken_v2">>
          ELSE IF Flag(status, "missing_mid") THEN <<"missing_mid">>
          ELSE <<>>
     ELSE <<>>)
    \o
    (IF Flag(status, "login_expired") THEN <<"login_expired">>
     ELSE IF Flag(status, "incorrect_return") THEN <<"incorrect_return">>
     ELSE IF Flag(status, "network_error") THEN <<"network_error">>
     ELSE <<"unknown">>)

\* the failure notice never appended
ReportSilent(box, status) == box

\* lines 153-185: the message_box returned
Report(box, status) ==
    IF ~StatusBool(status) THEN Append(box, Notice(status)) ELSE box

(***************************************************************************)
(* State                                                                   *)
(***************************************************************************)
VARIABLES
    preference,         \* project_config.preference (wait time, interval)
    users,              \* ConfigDataManager.config_data.users (in memory)
    saved_users,        \* the users last written by save_config
    pc,                 \* where mys_login is suspended
    login_count,        \* number of mys_login calls started
    device_id,          \* locals of mys_login
    login_status,
    fetch_qrcode_ret,
    qrcode_query_times,
    loop_i,             \* iterations of the poll loop already run
    bbs_uid,
    game_token,
    fp_status,
    message_box,
    calls,              \* requests issued per endpoint in the current call
    results,            \* last status returned per endpoint in the current call
    slept,              \* time slept between polls in the current call
    users_at_call       \* users when the current call started

varsLogin == <<preference, users, saved_users, pc, login_count, device_id,
               login_status, fetch_qrcode_ret, qrcode_query_times, loop_i,
               bbs_uid, game_token, fp_status, message_box, calls, results,
               slept, users_at_call>>

(***************************************************************************)
(* State of perform_game_sign (core/game.py), for the signers of one       *)
(* account of one user                                                     *)
(***************************************************************************)
VARIABLES
    sign_pref,          \* preference: geetest_url, global_geetest
    sign_user,          \* user: enable_notice, geetest_url
    spc,                \* where perform_game_sign is suspended
    signer,             \* index of the signer being processed
    signed,             \* locals of perform_game_sign
    get_info_status,
    sign_status,
    mmt_data,
    verify_i,           \* i of "for i in range(3)"
    msgs_list,
    pushed,             \* messages handed to push(), in order
    sign_calls,         \* signer.sign calls for the current signer
    validate_calls,     \* get_validate calls for the current signer
    validate_posts,     \* POSTs to the solver for the current signer
    cooldowns,          \* asyncio.sleep(sleep_time) runs for the current signer
    need_verify_seen,   \* a sign call of the current signer asked for verification
    validate_resolved   \* get_validate calls of the current signer that
                        \* returned a validation token

varsSign == <<sign_pref, sign_user, spc, signer, signed, get_info_status,
              sign_status, mmt_data, verify_i, msgs_list, pushed, sign_calls,
              validate_calls, validate_posts, cooldowns, need_verify_seen,
              validate_resolved>>

(***************************************************************************)
(* State of one call of get_validate (utils/common.py)                     *)
(***************************************************************************)
VARIABLES
    v_pc,               \* where get_validate is suspended
    arg_gt,             \* arguments of the call
    arg_challenge,
    geetest_data,       \* what the POST to the solver produced
    validate_result,    \* the value get_validate returned
    post_count          \* POSTs issued by the call

varsValidate == <<v_pc, arg_gt, arg_challenge, geetest_data, validate_result, post_count>>

(***************************************************************************)
(* State of run_task (utils/common.py), of a TaskLogger                    *)
(* (config/task_logger.py) and of _weibo_sign_impl (core/weibo.py)         *)
(***************************************************************************)
VARIABLES
    data_list,          \* run_task's argument: what task_func does on each item
    rt_pc,              \* where run_task is suspended
    rt_i,               \* i of "for i, data in enumerate(data_list, start=1)"
    success_count,      \* locals of run_task
    failure_count,
    result_list,
    task_result,        \* the list run_task returned
    events,             \* starts and ends of task_func calls, in order
    task_logger,        \* the TaskLogger object
    wb_pc,              \* where _weibo_sign_impl is suspended
    result              \* the TaskResult obtained from get_result()

varsTask == <<data_list, rt_pc, rt_i, success_count, failure_count,
              result_list, task_result, events, task_logger, wb_pc, result>>

(***************************************************************************)
(* State of manually_game_sign / manually_bbs_sign (core/game.py)          *)
(***************************************************************************)
VARIABLES
    man_kind,           \* which of the two functions runs
    man_users,          \* what perform_*_sign does for each user, in order
    man_pc,             \* where the function is suspended
    man_i,              \* index of the user being processed
    man_msgs            \* len(msgs_list)

varsManual == <<man_kind, man_users, man_pc, man_i, man_msgs>>

(***************************************************************************)
(* State of the login tasks: mys_login_task (task_login.py) and            *)
(* main_login_task (ql_login.py)                                           *)
(***************************************************************************)
VARIABLES
    lt_kind,            \* which of the two tasks runs
    lt_pc,              \* where the task is suspended
    lt_notified,        \* titles handed to push / ql_push, in order
    lt_end              \* how the task ended: "none", "returned", "raised"

varsLoginTask == <<lt_kind, lt_pc, lt_notified, lt_end>>

(***************************************************************************)
(* State of execute_task_with_logging (config/task_logger.py)              *)
(***************************************************************************)
VARIABLES
    ex_value,           \* what the task function does: raise, or the value it returns
    ex_pc,              \* where the function is suspended
    ex_logger,          \* the TaskLogger of the async with
    ex_result           \* the TaskResult returned

varsExecute == <<ex_value, ex_pc, ex_logger, ex_result>>

(***************************************************************************)
(* State of the account loop of perform_game_sign / perform_bbs_sign       *)
(* (core/game.py), as far as user.enable_notice depends on it              *)
(***************************************************************************)
VARIABLES
    fa_kind,            \* which of the two functions runs
    fa_accounts,        \* how the sign-in of each account of the user ends, in order
    fa_pc,              \* where the function is suspended
    fa_i,               \* index of the account being processed
    failed_accounts,    \* the list of lines 68 and 194
    fa_enable_notice,   \* user.enable_notice
    fa_notice_at_call   \* user.enable_notice when the function was called

varsFailed == <<fa_kind, fa_accounts, fa_pc, fa_i, failed_accounts,
                fa_enable_notice, fa_notice_at_call>>

(***************************************************************************)
(* State of genshin_note_check (core/game.py) over the accounts of a user  *)
(***************************************************************************)
VARIABLES
    nc_enabled,         \* per account: enable_resin and the game selected
    nc_threshold,       \* per account: user_resin_threshold
    note_notice_status, \* the module-level dict, keyed by account
    nc_pc,              \* where genshin_note_check is suspended
    nc_i,               \* index of the account being processed
    nc_checked,         \* accounts whose note was requested in this call
    nc_pushed,          \* reminders of the message pushed by the last step
    full_sent,          \* per account: full reminder pushed since resin was last seen below the threshold
    threshold_sent      \* per account: threshold reminder pushed since then

varsNote == <<nc_enabled, nc_threshold, note_notice_status, nc_pc, nc_i,
              nc_checked, nc_pushed, full_sent, threshold_sent>>

(***************************************************************************)
(* State of PushHandler.push (utils/push.py)                               *)
(***************************************************************************)
VARIABLES
    push_enable,        \* config.enable
    push_servers,       \* config.push_servers
    push_pc,            \* where push is
    push_i,             \* index of the server the loop is at
    push_results,       \* the list results
    push_attempted,     \* the servers whose method was called, in order
    push_outcomes,      \* what each called method did, in order
    push_return         \* the value push returned

varsPush == <<push_enable, push_servers, push_pc, push_i, push_results,
              push_attempted, push_outcomes, push_return>>

varsRest == <<varsLoginTask, varsExecute, varsFailed, varsNote, varsPush>>

vars == <<varsLogin, varsSign, varsValidate, varsTask, varsManual, varsRest>>

\* (wait_time, interval) settings explored
Preferences ==
    { [qrcode_wait_time |-> w, qrcode_query_interval |-> i] :
        w \in 1..MaxWaitTime, i \in 1..MaxInterval }
    \cup { [qrcode_wait_time |-> 10, qrcode_query_interval |-> 5] }

NoStatus == Status("BaseApiStatus", {})

NoCalls == [e \in Endpoints |-> 0]

NoResults == [e \in Endpoints |-> NoStatus]

Request(c, e) == [c EXCEPT ![e] = @ + 1]

\* the account the current call works on
Account == users[bbs_uid].accounts[bbs_uid]

InitLogin ==
    /\ preference \in Preferences
    /\ users = EmptyDict
    /\ saved_users = EmptyDict
    /\ pc = "idle"
    /\ login_count = 0
    /\ device_id = None
    /\ login_status = NoStatus
    /\ fetch_qrcode_ret = None
    /\ qrcode_query_times = 0
    /\ loop_i = 0
    /\ bbs_uid = None
    /\ game_token = None
    /\ fp_status = NoStatus
    /\ message_box = <<>>
    /\ calls = NoCalls
    /\ results = NoResults
    /\ slept = 0
    /\ users_at_call = EmptyDict

(***************************************************************************)
(* mys_login, one action per resumption                                    *)
(***************************************************************************)
\* lines 30-36: entry, up to the await of fetch_game_token_qrcode
MysLogin ==
    /\ pc \in {"idle", "done"}
    /\ login_count < MaxLogins
    /\ login_count' = login_count + 1
    /\ message_box' = <<>>
    /\ device_id' = generate_device_id(login_count + 1, 1)
    /\ login_status' = NoStatus
    /\ fetch_qrcode_ret' = None
    /\ results' = NoResults
    /\ fp_status' = NoStatus
    /\ qrcode_query_times' = 0
    /\ loop_i' = 0
    /\ bbs_uid' = None
    /\ game_token' = None
    /\ calls' = Request(NoCalls, "fetch_game_token_qrcode")
    /\ slept' = 0
    /\ users_at_call' = users
    /\ pc' = "fetch_game_token_qrcode"
    /\ UNCHANGED <<preference, users, saved_users>>

\* lines 34-54: QR issuance returned
FetchReturns ==
    /\ pc = "fetch_game_token_qrcode"
    /\ \E r \in FetchResults(login_count) :
        /\ login_status' = r.status
        /\ results' = [results EXCEPT !["fetch_game_token_qrcode"] = r.status]
        /\ fetch_qrcode_ret' = r.ret
        /\ IF HasTicket(r.ret)
           THEN /\ qrcode_query_times' = QueryTimes(preference)
                /\ pc' = "loop_head"
           ELSE /\ qrcode_query_times' = qrcode_query_times
                /\ pc' = "report"
    /\ bbs_uid' = None
    /\ game_token' = None
    /\ loop_i' = 0
    /\ UNCHANGED <<preference, users, saved_users, login_count, device_id,
                   fp_status, message_box, calls, slept, users_at_call>>

\* line 55: next iteration of range(qrcode_query_times), up to the await of
\* query_game_token_qrcode, or loop exit
LoopHead ==
    /\ pc = "loop_head"
    /\ IF loop_i < qrcode_query_times
       THEN /\ calls' = Request(calls, "query_game_token_qrcode")
            /\ pc' = "query_game_token_qrcode"
       ELSE /\ calls' = calls
            /\ pc' = "after_loop"
    /\ UNCHANGED <<preference, users, saved_users, login_count, device_id,
                   login_status, qrcode_query_times, loop_i, bbs_uid,
                   game_token, fp_status, message_box, slept, users_at_call,
                   fetch_qrcode_ret, results>>

\* lines 56-67: a scan-status poll returned
QueryReturns ==
    /\ pc = "query_game_token_qrcode"
    /\ \E r \in QueryResults(login_count) :
        /\ login_status' = r.status
        /\ results' = [results EXCEPT !["query_game_token_qrcode"] = r.status]
        /\ IF r.ret # None
           THEN \* confirmed: break
                /\ bbs_uid' = r.ret[1]
                /\ game_token' = r.ret[2]
                /\ loop_i' = loop_i
                /\ pc' = "after_loop"
           ELSE IF Flag(r.status, "qrcode_expired")
           THEN \* warning only: the loop goes on to its next iteration
                /\ loop_i' = loop_i + 1
                /\ pc' = "loop_head"
                /\ UNCHANGED <<bbs_uid, game_token>>
           ELSE IF ~StatusBool(r.status)
           THEN \* await asyncio.sleep(interval); continue
                /\ loop_i' = loop_i
                /\ pc' = "sleep"
                /\ UNCHANGED <<bbs_uid, game_token>>
           ELSE /\ loop_i' = loop_i + 1
                /\ pc' = "loop_head"
                /\ UNCHANGED <<bbs_uid, game_token>>
    /\ UNCHANGED <<preference, users, saved_users, login_count, device_id,
                   qrcode_query_times, fp_status, message_box, calls, slept,
                   users_at_call,
                   fetch_qrcode_ret>>

\* lines 66-67: the sleep between two polls ended
SleepReturns ==
    /\ pc = "sleep"
    /\ slept' = slept + preference.qrcode_query_interval
    /\ loop_i' = loop_i + 1
    /\ pc' = "loop_head"
    /\ UNCHANGED <<preference, users, saved_users, login_count, device_id,
                   login_status, qrcode_query_times, bbs_uid, game_token,
                   fp_status, message_box, calls, users_at_call,
                   fetch_qrcode_ret, results>>

\* lines 69-97 and 150-151: after the loop, up to the await of get_device_fp
AfterLoop ==
    /\ pc = "after_loop"
    /\ IF ScanConfirmed(bbs_uid, game_token)
       THEN /\ users' = BindAccount(users, bbs_uid, device_id,
                                    generate_device_id(login_count, 2))
            /\ calls' = Request(calls, "get_device_fp")
            /\ pc' = "get_device_fp"
       ELSE /\ users' = users
            /\ calls' = calls
            /\ pc' = "report"
    /\ UNCHANGED <<preference, saved_users, login_count, device_id,
                   login_status, qrcode_query_times, loop_i, bbs_uid,
                   game_token, fp_status, message_box, slept, users_at_call,
                   fetch_qrcode_ret, results>>

\* lines 97-106: the fingerprint exchange returned
FpReturns ==
    /\ pc = "get_device_fp"
    /\ \E r \in FpResults(device_id) :
        /\ fp_status' = r.status
        /\ results' = [results EXCEPT !["get_device_fp"] = r.status]
        /\ users' = [users EXCEPT ![bbs_uid].accounts[bbs_uid].device_fp = r.fp]
    /\ saved_users' = save_config(users', saved_users)
    /\ IF StatusBool(login_status)
       THEN /\ calls' = Request(calls, "get_token_by_game_token")
            /\ pc' = "get_token_by_game_token"
       ELSE /\ calls' = calls
            /\ pc' = "report"
    /\ UNCHANGED <<preference, login_count, device_id, login_status,
                   qrcode_query_times, loop_i, bbs_uid, game_token,
                   message_box, slept, users_at_call,
                   fetch_qrcode_ret>>

\* lines 104-116 and 139-143: the primary token exchange returned
TokenReturns ==
    /\ pc = "get_token_by_game_token"
    /\ \E r \in TokenResults(bbs_uid, login_count) :
        /\ login_status' = r.status
        /\ results' = [results EXCEPT !["get_token_by_game_token"] = r.status]
        /\ IF StatusBool(r.status)
           THEN /\ users' = UpdateAccount(users, bbs_uid, r.cookies)
                /\ saved_users' = save_config(users', saved_users)
                /\ pc' = DerivedPath(users'[bbs_uid].accounts[bbs_uid].cookies)
                /\ calls' = Request(calls, pc')
           ELSE /\ pc' = "report"
                /\ UNCHANGED <<users, saved_users, calls>>
    /\ UNCHANGED <<preference, login_count, device_id, qrcode_query_times,
                   loop_i, bbs_uid, game_token, fp_status, message_box, slept,
                   users_at_call,
                   fetch_qrcode_ret>>

\* lines 116-129: the ltoken exchange returned
LtokenReturns ==
    /\ pc = "get_ltoken_by_stoken"
    /\ \E r \in LtokenResults(login_count) :
        /\ login_status' = r.status
        /\ results' = [results EXCEPT !["get_ltoken_by_stoken"] = r.status]
        /\ IF StatusBool(r.status)
           THEN /\ users' = UpdateAccount(users, bbs_uid, r.cookies)
                /\ saved_users' = save_config(users', saved_users)
           ELSE UNCHANGED <<users, saved_users>>
        /\ pc' = AfterLtoken(r.status)
        /\ calls' = IF pc' \in Endpoints THEN Request(calls, pc') ELSE calls
    /\ UNCHANGED <<preference, login_count, device_id, qrcode_query_times,
                   loop_i, bbs_uid, game_token, fp_status, message_box, slept,
                   users_at_call,
                   fetch_qrcode_ret>>

\* lines 127-138: the cookie-token exchange by stoken returned
CookieTokenByStokenReturns ==
    /\ pc = "get_cookie_token_by_stoken"
    /\ \E r \in CookieTokenResults(login_count) :
        /\ login_status' = r.status
        /\ results' = [results EXCEPT !["get_cookie_token_by_stoken"] = r.status]
        /\ IF StatusBool(r.status)
           THEN /\ users' = UpdateAccount(users, bbs_uid, r.cookies)
                /\ saved_users' = save_config(users', saved_users)
           ELSE UNCHANGED <<users, saved_users>>
    /\ pc' = "report"
    /\ UNCHANGED <<preference, login_count, device_id, qrcode_query_times,
                   loop_i, bbs_uid, game_token, fp_status, message_box, calls,
                   slept, users_at_call,
                   fetch_qrcode_ret>>

\* lines 141-149: the cookie-token exchange by game token returned
CookieTokenByGameTokenReturns ==
    /\ pc = "get_cookie_token_by_game_token"
    /\ \E r \in CookieTokenResults(login_count) :
        /\ login_status' = r.status
        /\ results' = [results EXCEPT !["get_cookie_token_by_game_token"] = r.status]
        /\ IF StatusBool(r.status)
           THEN /\ users' = UpdateAccount(users, bbs_uid, r.cookies)
                /\ saved_users' = save_config(users', saved_users)
           ELSE UNCHANGED <<users, saved_users>>
    /\ pc' = "report"
    /\ UNCHANGED <<preference, login_count, device_id, qrcode_query_times,
                   loop_i, bbs_uid, game_token, fp_status, message_box, calls,
                   slept, users_at_call,
                   fetch_qrcode_ret>>

\* lines 153-185: the failure notice, and the return
ReportAndReturn ==
    /\ pc = "report"
    /\ message_box' = Report(message_box, login_status)
    /\ pc' = "done"
    /\ UNCHANGED <<preference, users, saved_users, login_count, device_id,
                   login_status, qrcode_query_times, loop_i, bbs_uid,
                   game_token, fp_status, calls, slept, users_at_call,
                   fetch_qrcode_ret, results>>

(***************************************************************************)
(* perform_game_sign: values and pure parts                                *)
(***************************************************************************)
\* MmtData(gt=..., challenge=...)
MmtData(gt, challenge) == <<"MmtData", gt, challenge>>

\* GeetestResult(validate, seccode): a NamedTuple
GeetestResult(validate, seccode) == <<"GeetestResult", validate, seccode>>

\* truth value of what get_validate returned: None is falsy, a NamedTuple
\* of two fields is a non-empty tuple and so truthy whatever it holds
ResultBool(geetest_result) == geetest_result # None

SolverUrl == <<"url", 1>>

\* signer.sign (services): success, verification requested with a challenge
\* (possibly with empty fields), expired login with or without challenge
\* data, another failure
SignResults ==
    { [status |-> Status("BaseApiStatus", {"success"}), mmt |-> None],
      [status |-> Status("BaseApiStatus", {"need_verify"}),
       mmt |-> MmtData(<<"gt", 1>>, <<"challenge", 1>>)],
      [status |-> Status("BaseApiStatus", {"need_verify"}),
       mmt |-> MmtData(None, None)],
      [status |-> Status("BaseApiStatus", {"login_expired"}), mmt |-> None],
      [status |-> Status("BaseApiStatus", {"login_expired"}),
       mmt |-> MmtData(<<"gt", 1>>, <<"challenge", 1>>)],
      [status |-> Status("BaseApiStatus", {"network_error"}), mmt |-> None] }

\* signer.get_info (services): whether today's sign-in is already done, or failure
GetInfoResults ==
    { [ok |-> TRUE, is_sign |-> TRUE], [ok |-> TRUE, is_sign |-> FALSE],
      [ok |-> FALSE, is_sign |-> FALSE] }

\* signer.get_rewards (services)
GetRewardsResults == BOOLEAN

\* the solver's answer to the POST of get_validate: a validate with or
\* without seccode, an empty validate, or an exception (transport error,
\* timeout, a body that is not JSON, a body without data.validate)
PostResults ==
    { [raised |-> FALSE, validate |-> <<"validate", 1>>, seccode |-> <<"seccode", 1>>],
      [raised |-> FALSE, validate |-> <<"validate", 1>>, seccode |-> None],
      [raised |-> FALSE, validate |-> EmptyStr, seccode |-> None],
      [raised |-> TRUE, validate |-> None, seccode |-> None] }

\* get_validate, lines 326-337: the solver endpoint the call selects
SelectedGeetestUrl(pref, user) ==
    IF ~pref.global_geetest THEN user.geetest_url ELSE pref.geetest_url

\* the early return only when no solver url is configured at all
ValidateSkipsRequestAnyUrl(pref, user, gt, challenge) ==
    \/ ~(Truthy(gt) /\ Truthy(challenge))
    \/ ~(Truthy(pref.geetest_url) \/ Truthy(user.geetest_url))

\* get_validate, lines 327 and 333: the early return without a request
ValidateSkipsRequest(pref, user, gt, challenge) ==
    ~(Truthy(gt) /\ Truthy(challenge)) \/ ~Truthy(SelectedGeetestUrl(pref, user))

\* the unresolved result returned when the POST fails
ValidateAfterPostEmptyOnError(r) ==
    IF r.raised THEN GeetestResult(EmptyStr, EmptyStr)
    ELSE GeetestResult(r.validate,
                       IF Truthy(r.seccode) THEN r.seccode
                       ELSE <<"jordan", r.validate[2]>>)

\* get_validate, lines 346-357: the value returned after the POST
ValidateAfterPost(r) ==
    IF r.raised THEN None
    ELSE GeetestResult(r.validate,
                       IF Truthy(r.seccode) THEN r.seccode
                       ELSE <<"jordan", r.validate[2]>>)

\* no POST issued
NoResponse == [raised |-> FALSE, validate |-> None, seccode |-> None]

\* what one call of get_validate can return
GetValidateResults(pref, user, gt, challenge) ==
    IF ValidateSkipsRequest(pref, user, gt, challenge)
    THEN { GeetestResult(EmptyStr, EmptyStr) }
    ELSE { ValidateAfterPost(r) : r \in PostResults }

\* one iteration more than range(3)
VerifyLoopContinuesOneMore(i) == i <= 3

\* for i in range(3):
VerifyLoopContinues(i) == i < 3

\* line 98: if (get_info_status and not info.is_sign) or not get_info_status
ShouldSign(info_ok, is_sign) == (info_ok /\ ~is_sign) \/ ~info_ok

\* the verification loop entered on any failed sign status
EntersVerifyLoopOnFailure(status, pref, user) ==
    /\ ~StatusBool(status)
    /\ (Truthy(pref.geetest_url) \/ Truthy(user.geetest_url))

\* lines 100-101: need_verify and a solver url configured globally or for the user
EntersVerifyLoop(status, pref, user) ==
    /\ Flag(status, "need_verify")
    /\ (Truthy(pref.geetest_url) \/ Truthy(user.geetest_url))

\* lines 120-128: the failure message chosen for a falsy sign status
FailureMessage(status, k) ==
    IF Flag(status, "login_expired") THEN <<"login_expired", k, 0>>
    ELSE IF Flag(status, "need_verify") THEN <<"need_verify", k, 0>>
    ELSE <<"sign_failed", k, 0>>

FailureKinds == {"login_expired", "need_verify", "sign_failed"}

(***************************************************************************)
(* perform_game_sign, one action per resumption                            *)
(***************************************************************************)
SignPrefs == [geetest_url : {None, SolverUrl}, global_geetest : BOOLEAN]

SignUsers == [enable_notice : BOOLEAN, geetest_url : {None, SolverUrl}]

NoMmt == None

InitSignLocals ==
    /\ signer = 0
    /\ signed = FALSE
    /\ get_info_status = FALSE
    /\ sign_status = NoStatus
    /\ mmt_data = NoMmt
    /\ verify_i = 0
    /\ msgs_list = <<>>
    /\ pushed = <<>>
    /\ sign_calls = 0
    /\ validate_calls = 0
    /\ validate_posts = 0
    /\ cooldowns = 0
    /\ need_verify_seen = FALSE
    /\ validate_resolved = 0

\* perform_game_sign not running
SignIdle ==
    /\ sign_pref = [geetest_url |-> None, global_geetest |-> FALSE]
    /\ sign_user = [enable_notice |-> TRUE, geetest_url |-> None]
    /\ spc = "off"
    /\ InitSignLocals

InitSign ==
    /\ sign_pref \in SignPrefs
    /\ sign_user \in SignUsers
    /\ spc = "idle"
    /\ InitSignLocals

\* lines 83-91: the next signer of the account, up to the await of get_info
StartSigner ==
    /\ spc \in {"idle", "next_signer"}
    /\ signer < MaxSigners
    /\ signer' = signer + 1
    /\ sign_calls' = 0
    /\ validate_calls' = 0
    /\ validate_posts' = 0
    /\ cooldowns' = 0
    /\ need_verify_seen' = FALSE
    /\ validate_resolved' = 0
    /\ verify_i' = 0
    /\ spc' = "get_info"
    /\ UNCHANGED <<sign_pref, sign_user, signed, get_info_status, sign_status,
                   mmt_data, msgs_list, pushed>>
    /\ UNCHANGED varsLogin

\* lines 91-99 and 139-141: get_info returned
GetInfoReturns ==
    /\ spc = "get_info"
    /\ \E r \in GetInfoResults :
        /\ get_info_status' = r.ok
        /\ signed' = IF r.ok THEN r.is_sign ELSE signed
        /\ IF ShouldSign(r.ok, r.is_sign)
           THEN /\ sign_calls' = sign_calls + 1
                /\ spc' = "sign"
                /\ cooldowns' = cooldowns
           ELSE \* already signed: straight to line 140
                /\ sign_calls' = sign_calls
                /\ IF sign_user.enable_notice
                   THEN spc' = "get_info_result" /\ cooldowns' = cooldowns
                   ELSE spc' = "sleep_signer" /\ cooldowns' = cooldowns + 1
    /\ UNCHANGED <<sign_pref, sign_user, signer, sign_status, mmt_data,
                   verify_i, msgs_list, pushed, validate_calls, validate_posts,
                   need_verify_seen, validate_resolved>>
    /\ UNCHANGED varsLogin

\* lines 99-102: the first signer.sign returned
SignReturns ==
    /\ spc = "sign"
    /\ \E r \in SignResults :
        /\ sign_status' = r.status
        /\ mmt_data' = r.mmt
        /\ need_verify_seen' = (need_verify_seen \/ Flag(r.status, "need_verify"))
        /\ spc' = IF EntersVerifyLoop(r.status, sign_pref, sign_user)
                  THEN "verify_head" ELSE "report"
    /\ verify_i' = 0
    /\ UNCHANGED <<sign_pref, sign_user, signer, signed, get_info_status,
                   msgs_list, pushed, sign_calls, validate_calls,
                   validate_posts, cooldowns,
                   validate_resolved>>
    /\ UNCHANGED varsLogin

\* lines 102-110: one iteration of the verification loop starts, up to the
\* await of get_validate; reading mmt_data.gt of None raises
VerifyHead ==
    /\ spc = "verify_head"
    /\ IF VerifyLoopContinues(verify_i)
       THEN /\ msgs_list' = Append(msgs_list, <<"captcha", signer, verify_i>>)
            /\ IF mmt_data = None
               THEN /\ spc' = "raised"
                    /\ validate_calls' = validate_calls
               ELSE /\ spc' = "get_validate"
                    /\ validate_calls' = validate_calls + 1
       ELSE /\ spc' = "report"
            /\ UNCHANGED <<msgs_list, validate_calls>>
    /\ UNCHANGED <<sign_pref, sign_user, signer, signed, get_info_status,
                   sign_status, mmt_data, verify_i, pushed, sign_calls,
                   validate_posts, cooldowns,
                   need_verify_seen, validate_resolved>>
    /\ UNCHANGED varsLogin

\* lines 107-115 and get_validate: get_validate returned
ValidateReturns ==
    /\ spc = "get_validate"
    /\ validate_posts' =
          IF ValidateSkipsRequest(sign_pref, sign_user, mmt_data[2], mmt_data[3])
          THEN validate_posts ELSE validate_posts + 1
    /\ \E g \in GetValidateResults(sign_pref, sign_user, mmt_data[2], mmt_data[3]) :
        /\ validate_resolved' =
              IF g # None /\ Truthy(g[2]) THEN validate_resolved + 1
              ELSE validate_resolved
        /\ IF ~ResultBool(g)
           THEN \* continue
                /\ verify_i' = verify_i + 1
                /\ spc' = "verify_head"
                /\ sign_calls' = sign_calls
           ELSE /\ verify_i' = verify_i
                /\ spc' = "resign"
                /\ sign_calls' = sign_calls + 1
    /\ UNCHANGED <<sign_pref, sign_user, signer, signed, get_info_status,
                   sign_status, mmt_data, msgs_list, pushed, validate_calls,
                   cooldowns,
                   need_verify_seen>>
    /\ UNCHANGED varsLogin

\* lines 113-117: the verified signer.sign returned
ResignReturns ==
    /\ spc = "resign"
    /\ \E r \in SignResults :
        /\ sign_status' = r.status
        /\ mmt_data' = r.mmt
        /\ need_verify_seen' = (need_verify_seen \/ Flag(r.status, "need_verify"))
        /\ IF StatusBool(r.status)
           THEN \* break
                /\ verify_i' = verify_i
                /\ spc' = "report"
           ELSE /\ verify_i' = verify_i + 1
                /\ spc' = "verify_head"
    /\ UNCHANGED <<sign_pref, sign_user, signer, signed, get_info_status,
                   msgs_list, pushed, sign_calls, validate_calls,
                   validate_posts, cooldowns,
                   validate_resolved>>
    /\ UNCHANGED varsLogin

\* lines 119-137: the failure message, up to the await of a cooldown sleep
ReportSign ==
    /\ spc = "report"
    /\ IF ~StatusBool(sign_status) /\ sign_user.enable_notice
       THEN /\ msgs_list' = Append(msgs_list, FailureMessage(sign_status, signer))
            /\ pushed' = Append(pushed, FailureMessage(sign_status, signer))
            /\ spc' = "sleep_failed"
       ELSE /\ spc' = "sleep_attempt"
            /\ UNCHANGED <<msgs_list, pushed>>
    /\ cooldowns' = cooldowns + 1
    /\ UNCHANGED <<sign_pref, sign_user, signer, signed, get_info_status,
                   sign_status, mmt_data, verify_i, sign_calls, validate_calls,
                   validate_posts,
                   need_verify_seen, validate_resolved>>
    /\ UNCHANGED varsLogin

\* lines 134-135: the sleep after a failure message ended; continue
SleepFailedReturns ==
    /\ spc = "sleep_failed"
    /\ spc' = "next_signer"
    /\ UNCHANGED <<sign_pref, sign_user, signer, signed, get_info_status,
                   sign_status, mmt_data, verify_i, msgs_list, pushed,
                   sign_calls, validate_calls, validate_posts, cooldowns,
                   need_verify_seen, validate_resolved>>
    /\ UNCHANGED varsLogin

\* lines 137-141 and 169: the sleep after the attempt ended
SleepAttemptReturns ==
    /\ spc = "sleep_attempt"
    /\ IF sign_user.enable_notice
       THEN spc' = "get_info_result" /\ cooldowns' = cooldowns
       ELSE spc' = "sleep_signer" /\ cooldowns' = cooldowns + 1
    /\ UNCHANGED <<sign_pref, sign_user, signer, signed, get_info_status,
                   sign_status, mmt_data, verify_i, msgs_list, pushed,
                   sign_calls, validate_calls, validate_posts,
                   need_verify_seen, validate_resolved>>
    /\ UNCHANGED varsLogin

\* lines 141-169: get_info and get_rewards for the result message returned
ResultReturns ==
    /\ spc = "get_info_result"
    /\ \E r \in GetInfoResults, award_ok \in GetRewardsResults :
        /\ get_info_status' = r.ok
        /\ IF ~r.ok \/ ~award_ok
           THEN /\ msgs_list' = msgs_list
                /\ pushed' = Append(pushed, <<"result_unknown", signer, 0>>)
           ELSE IF r.is_sign
           THEN /\ msgs_list' = Append(msgs_list, <<"signed", signer, 0>>)
                /\ pushed' = pushed \o << <<"signed", signer, 0>>,
                                          <<"signed", signer, 0>> >>
           ELSE /\ msgs_list' = msgs_list
                /\ pushed' = Append(pushed, <<"not_signed", signer, 0>>)
    /\ cooldowns' = cooldowns + 1
    /\ spc' = "sleep_signer"
    /\ UNCHANGED <<sign_pref, sign_user, signer, signed, sign_status, mmt_data,
                   verify_i, sign_calls, validate_calls, validate_posts,
                   need_verify_seen, validate_resolved>>
    /\ UNCHANGED varsLogin

\* line 169: the sleep at the end of the signer's iteration ended
SleepSignerReturns ==
    /\ spc = "sleep_signer"
    /\ spc' = "next_signer"
    /\ UNCHANGED <<sign_pref, sign_user, signer, signed, get_info_status,
                   sign_status, mmt_data, verify_i, msgs_list, pushed,
                   sign_calls, validate_calls, validate_posts, cooldowns,
                   need_verify_seen, validate_resolved>>
    /\ UNCHANGED varsLogin

\* lines 171-173: after the last signer every message of msgs_list is pushed
FinishSigners ==
    /\ spc = "next_signer"
    /\ signer = MaxSigners
    /\ pushed' = pushed \o msgs_list
    /\ spc' = "done"
    /\ UNCHANGED <<sign_pref, sign_user, signer, signed, get_info_status,
                   sign_status, mmt_data, verify_i, msgs_list, sign_calls,
                   validate_calls, validate_posts, cooldowns, need_verify_seen,
              validate_resolved,
                   need_verify_seen, validate_resolved>>
    /\ UNCHANGED varsLogin

\* get_validate not running
ValidateIdle ==
    /\ v_pc = "off"
    /\ arg_gt = None
    /\ arg_challenge = None
    /\ geetest_data = NoResponse
    /\ validate_result = None
    /\ post_count = 0

NextSign ==
    \/ StartSigner
    \/ GetInfoReturns
    \/ SignReturns
    \/ VerifyHead
    \/ ValidateReturns
    \/ ResignReturns
    \/ ReportSign
    \/ SleepFailedReturns
    \/ SleepAttemptReturns
    \/ ResultReturns
    \/ SleepSignerReturns
    \/ FinishSigners

\* mys_login not running: the default configuration, an empty store
LoginIdle ==
    /\ preference = [qrcode_wait_time |-> 120, qrcode_query_interval |-> 1]
    /\ users = EmptyDict
    /\ saved_users = EmptyDict
    /\ pc = "off"
    /\ login_count = 0
    /\ device_id = None
    /\ login_status = NoStatus
    /\ fetch_qrcode_ret = None
    /\ qrcode_query_times = 0
    /\ loop_i = 0
    /\ bbs_uid = None
    /\ game_token = None
    /\ fp_status = NoStatus
    /\ message_box = <<>>
    /\ calls = NoCalls
    /\ results = NoResults
    /\ slept = 0
    /\ users_at_call = EmptyDict

(***************************************************************************)
(* run_task, TaskLogger and _weibo_sign_impl                               *)
(***************************************************************************)
\* what single_weibo_sign returns: the sign summary, the text for no topic
\* found, the text of a caught error (it never raises: lines 258-296)
WeiboOutcomes == {"signed", "no_topics", "error_msg"}

\* what a task_func can do on one item: return one of these, or raise
TaskOutcomes == WeiboOutcomes \cup {"raises"}

\* str(e) of the exception a raising task_func raises
ErrorText == "error_text"

\* the result line without the text of the error
ResultStrNoError(outcome) ==
    IF outcome = "raises" THEN <<"failed", "">> ELSE <<"str", outcome>>

\* lines 175 and 177-181: str(raw_result), or the "failed: {e}" text for a raised error
ResultStr(outcome) ==
    IF outcome = "raises" THEN <<"failed", ErrorText>> ELSE <<"str", outcome>>

\* the line put in front of the list
PrependResult(list, i, result_str) == <<(<<i, result_str>>)>> \o list

\* lines 183-184: result_list.append of the line numbered i
AppendResult(list, i, result_str) == Append(list, <<i, result_str>>)

\* line 153: the list returned for an empty data_list
EmptyTaskResult ==
    [success_count |-> 0, failure_count |-> 0,
     status_fmt |-> <<"no_data", 0, 0>>, message |-> <<>>]

\* lines 186-195: the list returned after the loop; "\n".join keeps the order
TaskResultOf(sc, fc, list) ==
    [success_count |-> sc, failure_count |-> fc,
     status_fmt |-> <<"counts", sc, fc>>, message |-> list]

\* no list returned yet
NoTaskResult ==
    [success_count |-> 0, failure_count |-> 0,
     status_fmt |-> <<"", 0, 0>>, message |-> <<>>]

\* TaskLogger.__init__
NewTaskLogger ==
    [success_count |-> 0, failure_count |-> 0, total_count |-> 0, messages |-> <<>>]

\* (0, 0) reported as success
get_overall_status_never_skipped(sc, fc) ==
    IF fc = 0 THEN "success"
    ELSE IF sc > 0 /\ fc > 0 THEN "partial_success"
    ELSE "failed"

\* TaskLogger._get_overall_status
get_overall_status(sc, fc) ==
    IF fc = 0 /\ sc > 0 THEN "success"
    ELSE IF sc > 0 /\ fc > 0 THEN "partial_success"
    ELSE IF sc = 0 /\ fc > 0 THEN "failed"
    ELSE "skipped"

\* TaskLogger.log_success
log_success(l, message) ==
    [l EXCEPT !.success_count = @ + 1, !.total_count = @ + 1,
              !.messages = Append(@, <<"ok", message>>)]

\* TaskLogger.log_failure
log_failure(l, message) ==
    [l EXCEPT !.failure_count = @ + 1, !.total_count = @ + 1,
              !.messages = Append(@, <<"fail", message>>)]

\* TaskLogger.log_warning
log_warning(l, message) == [l EXCEPT !.messages = Append(@, <<"warn", message>>)]

\* TaskLogger.log_info
log_info(l, message) == [l EXCEPT !.messages = Append(@, <<"info", message>>)]

\* TaskLogger.get_result; the message is the summary line followed by the
\* logged messages
get_result(l) ==
    [status |-> get_overall_status(l.success_count, l.failure_count),
     message |-> <<(IF l.total_count = 0 THEN "nothing_done" ELSE "finished"),
                   Len(l.messages)>>,
     success_count |-> l.success_count,
     failure_count |-> l.failure_count,
     total_count |-> l.total_count]

\* no TaskResult obtained yet
NoResult ==
    [status |-> "", message |-> <<"", 0>>,
     success_count |-> 0, failure_count |-> 0, total_count |-> 0]

\* data lists of at most MaxAccounts items over the given outcomes
DataLists(outcomes) ==
    UNION { [1..n -> outcomes] : n \in 0..MaxAccounts }

ManualLocals ==
    /\ man_i = 0
    /\ man_msgs = 0

\* neither function running
ManualIdle ==
    /\ man_kind = "manually_game_sign"
    /\ man_users = <<>>
    /\ man_pc = "off"
    /\ ManualLocals

\* no login task running
LoginTaskIdle ==
    /\ lt_kind = "mys_login_task"
    /\ lt_pc = "off"
    /\ lt_notified = <<>>
    /\ lt_end = "none"

\* what a task function does: it raises (kind "raises") or returns a
\* TaskResult, a str (a sequence of parts) or any other object (of which
\* only the truth value is read)
TaskReturn(kind, words, truthy, status, sc, fc) ==
    [kind |-> kind, words |-> words, truthy |-> truthy,
     status |-> status, success_count |-> sc, failure_count |-> fc]

\* execute_task_with_logging not running
ExecuteIdle ==
    /\ ex_value = TaskReturn("object", <<>>, FALSE, "", 0, 0)
    /\ ex_pc = "off"
    /\ ex_logger = NewTaskLogger
    /\ ex_result = NoResult

\* neither perform function running its account loop
FailedIdle ==
    /\ fa_kind = "perform_game_sign"
    /\ fa_accounts = <<>>
    /\ fa_pc = "off"
    /\ fa_i = 0
    /\ failed_accounts = <<>>
    /\ fa_enable_notice = TRUE
    /\ fa_notice_at_call = TRUE

\* genshin_note_check not running
NoteIdle ==
    /\ nc_enabled = <<>>
    /\ nc_threshold = <<>>
    /\ note_notice_status = EmptyDict
    /\ nc_pc = "off"
    /\ nc_i = 0
    /\ nc_checked = {}
    /\ nc_pushed = {}
    /\ full_sent = <<>>
    /\ threshold_sent = <<>>

\* push not called
PushIdle ==
    /\ push_enable = FALSE
    /\ push_servers = <<>>
    /\ push_pc = "off"
    /\ push_i = 0
    /\ push_results = <<>>
    /\ push_attempted = <<>>
    /\ push_outcomes = <<>>
    /\ push_return = None

RestIdle == LoginTaskIdle /\ ExecuteIdle /\ FailedIdle /\ NoteIdle /\ PushIdle

InitTaskLocals ==
    /\ rt_i = 0
    /\ success_count = 0
    /\ failure_count = 0
    /\ result_list = <<>>
    /\ task_result = NoTaskResult
    /\ events = <<>>
    /\ task_logger = NewTaskLogger
    /\ result = NoResult

\* neither run_task nor a TaskLogger in use
TaskIdle ==
    /\ data_list = <<>>
    /\ rt_pc = "off"
    /\ wb_pc = "off"
    /\ InitTaskLocals

\* lines 152-171: the empty list returns at once; otherwise the counters are
\* set and the first item runs up to the await of task_func
RunTaskCall ==
    /\ rt_pc = "call"
    /\ IF data_list = <<>>
       THEN /\ task_result' = EmptyTaskResult
            /\ rt_pc' = "returned"
            /\ UNCHANGED <<rt_i, events>>
       ELSE /\ rt_i' = 1
            /\ events' = Append(events, <<"start", 1>>)
            /\ rt_pc' = "task_func"
            /\ UNCHANGED task_result
    /\ success_count' = 0
    /\ failure_count' = 0
    /\ result_list' = <<>>
    /\ UNCHANGED <<data_list, task_logger, wb_pc, result>>
    /\ UNCHANGED <<varsLogin, varsSign, varsValidate, varsManual, varsRest>>

\* lines 172-195: task_func returned or raised; the line is appended, then
\* the next item starts or the list is returned
TaskFuncEnds ==
    /\ rt_pc = "task_func"
    /\ LET outcome == data_list[rt_i]
           sc == IF outcome = "raises" THEN success_count ELSE success_count + 1
           fc == IF outcome = "raises" THEN failure_count + 1 ELSE failure_count
           list == AppendResult(result_list, rt_i, ResultStr(outcome))
       IN  /\ success_count' = sc
           /\ failure_count' = fc
           /\ result_list' = list
           /\ IF rt_i < Len(data_list)
              THEN /\ rt_i' = rt_i + 1
                   /\ events' = events \o << <<"end", rt_i>>, <<"start", rt_i + 1>> >>
                   /\ rt_pc' = "task_func"
                   /\ UNCHANGED task_result
              ELSE /\ rt_i' = rt_i
                   /\ events' = Append(events, <<"end", rt_i>>)
                   /\ rt_pc' = "returned"
                   /\ task_result' = TaskResultOf(sc, fc, list)
    /\ UNCHANGED <<data_list, task_logger, wb_pc, result>>
    /\ UNCHANGED <<varsLogin, varsSign, varsValidate, varsManual, varsRest>>

\* run_task called with any list
InitRunTask ==
    /\ data_list \in DataLists(TaskOutcomes)
    /\ rt_pc = "call"
    /\ wb_pc = "off"
    /\ InitTaskLocals

InitRunTaskOnly == InitRunTask /\ LoginIdle /\ SignIdle /\ ValidateIdle /\ ManualIdle /\ RestIdle

NextRunTask == RunTaskCall \/ TaskFuncEnds

\* run_task over every list of outcomes
SpecRunTask == InitRunTaskOnly /\ [][NextRunTask]_vars

\* lines 302-311: no cookie is a logged failure; otherwise run_task is called
\* with the cookies and single_weibo_sign
WeiboStart ==
    /\ wb_pc = "start"
    /\ IF data_list = <<>>
       THEN /\ task_logger' = log_failure(task_logger, "no_cookie")
            /\ result' = get_result(task_logger')
            /\ wb_pc' = "returned"
            /\ UNCHANGED rt_pc
       ELSE /\ rt_pc' = "call"
            /\ wb_pc' = "run_task"
            /\ UNCHANGED <<task_logger, result>>
    /\ UNCHANGED <<data_list, rt_i, success_count, failure_count, result_list,
                   task_result, events>>
    /\ UNCHANGED <<varsLogin, varsSign, varsValidate, varsManual, varsRest>>

\* lines 313-337: run_task returned its list
WeiboAfterRunTask ==
    /\ wb_pc = "run_task"
    /\ rt_pc = "returned"
    /\ LET total_success_cnt == task_result.success_count
           total_failure_cnt == task_result.failure_count
       IN  IF total_success_cnt = 0 /\ total_failure_cnt = 0
           THEN /\ task_logger' = log_warning(task_logger, "no_valid_account")
                /\ result' = get_result(task_logger')
           ELSE LET l1 == IF total_success_cnt > 0
                          THEN log_success(task_logger, "signed_accounts")
                          ELSE task_logger
                    l2 == IF total_failure_cnt > 0
                          THEN log_failure(l1, "failed_accounts")
                          ELSE l1
                    l3 == log_info(l2, "task_finished")
                IN  /\ task_logger' = l3
                    /\ result' = [get_result(l3) EXCEPT
                                     !.message = <<"content", Len(task_result.message)>>]
    /\ wb_pc' = "returned"
    /\ rt_pc' = "off"
    /\ UNCHANGED <<data_list, rt_i, success_count, failure_count, result_list,
                   task_result, events>>
    /\ UNCHANGED <<varsLogin, varsSign, varsValidate, varsManual, varsRest>>

\* _weibo_sign_impl over the cookie lists get_cookies can return
InitWeibo ==
    /\ data_list \in DataLists(WeiboOutcomes)
    /\ rt_pc = "off"
    /\ wb_pc = "start"
    /\ InitTaskLocals

InitWeiboOnly == InitWeibo /\ LoginIdle /\ SignIdle /\ ValidateIdle /\ ManualIdle /\ RestIdle

NextWeibo == WeiboStart \/ RunTaskCall \/ TaskFuncEnds \/ WeiboAfterRunTask

\* the weibo sign-in task
SpecWeibo == InitWeiboOnly /\ [][NextWeibo]_vars

\* the messages logged
LogMessages == {"m"}

\* lines 85-90
LogSuccess ==
    /\ wb_pc = "logger"
    /\ Len(task_logger.messages) < MaxLogCalls
    /\ \E m \in LogMessages : task_logger' = log_success(task_logger, m)
    /\ UNCHANGED <<data_list, rt_pc, rt_i, success_count, failure_count,
                   result_list, task_result, events, wb_pc, result>>
    /\ UNCHANGED <<varsLogin, varsSign, varsValidate, varsManual, varsRest>>

\* lines 92-97
LogFailure ==
    /\ wb_pc = "logger"
    /\ Len(task_logger.messages) < MaxLogCalls
    /\ \E m \in LogMessages : task_logger' = log_failure(task_logger, m)
    /\ UNCHANGED <<data_list, rt_pc, rt_i, success_count, failure_count,
                   result_list, task_result, events, wb_pc, result>>
    /\ UNCHANGED <<varsLogin, varsSign, varsValidate, varsManual, varsRest>>

\* lines 99-102
LogWarning ==
    /\ wb_pc = "logger"
    /\ Len(task_logger.messages) < MaxLogCalls
    /\ \E m \in LogMessages : task_logger' = log_warning(task_logger, m)
    /\ UNCHANGED <<data_list, rt_pc, rt_i, success_count, failure_count,
                   result_list, task_result, events, wb_pc, result>>
    /\ UNCHANGED <<varsLogin, varsSign, varsValidate, varsManual, varsRest>>

\* lines 104-107
LogInfo ==
    /\ wb_pc = "logger"
    /\ Len(task_logger.messages) < MaxLogCalls
    /\ \E m \in LogMessages : task_logger' = log_info(task_logger, m)
    /\ UNCHANGED <<data_list, rt_pc, rt_i, success_count, failure_count,
                   result_list, task_result, events, wb_pc, result>>
    /\ UNCHANGED <<varsLogin, varsSign, varsValidate, varsManual, varsRest>>

\* lines 109-136
GetResult ==
    /\ wb_pc = "logger"
    /\ result' = get_result(task_logger)
    /\ UNCHANGED <<data_list, rt_pc, rt_i, success_count, failure_count,
                   result_list, task_result, events, task_logger, wb_pc>>
    /\ UNCHANGED <<varsLogin, varsSign, varsValidate, varsManual, varsRest>>

\* a fresh TaskLogger used by any caller
InitTaskLogger ==
    /\ data_list = <<>>
    /\ rt_pc = "off"
    /\ wb_pc = "logger"
    /\ InitTaskLocals

InitTaskLoggerOnly ==
    InitTaskLogger /\ LoginIdle /\ SignIdle /\ ValidateIdle /\ ManualIdle /\ RestIdle

NextTaskLogger == LogSuccess \/ LogFailure \/ LogWarning \/ LogInfo \/ GetResult

\* a TaskLogger under any sequence of its calls
SpecTaskLogger == InitTaskLoggerOnly /\ [][NextTaskLogger]_vars

(***************************************************************************)
(* manually_game_sign and manually_bbs_sign                                *)
(***************************************************************************)
\* what perform_game_sign / perform_bbs_sign does for one user: returns
\* without a message, returns after appending one, or raises
PerformOutcomes == {"returns", "appends", "raises"}

UserLists == UNION { [1..n -> PerformOutcomes] : n \in 0..MaxUsers }

InitManual ==
    /\ man_kind \in {"manually_game_sign", "manually_bbs_sign"}
    /\ man_users \in UserLists
    /\ man_pc = "call"
    /\ ManualLocals

InitManualOnly ==
    InitManual /\ LoginIdle /\ SignIdle /\ ValidateIdle /\ TaskIdle /\ RestIdle

\* lines 21-28 and 42-47: the user list is taken and the first user's
\* perform_*_sign is awaited, or lines 31-36 / 51-56 when there is no user
ManualCall ==
    /\ man_pc = "call"
    /\ IF man_users = <<>>
       THEN man_pc' = "done" /\ man_i' = man_i
       ELSE man_pc' = "perform" /\ man_i' = 1
    /\ UNCHANGED <<man_kind, man_users, man_msgs>>
    /\ UNCHANGED <<varsLogin, varsSign, varsValidate, varsTask, varsRest>>

\* lines 28-29 and 47-48: perform_*_sign returned, the next user follows; an
\* error it raised is not handled in the function and leaves it
PerformEnds ==
    /\ man_pc = "perform"
    /\ LET outcome == man_users[man_i]
       IN  IF outcome = "raises"
           THEN /\ man_pc' = "raised"
                /\ UNCHANGED <<man_i, man_msgs>>
           ELSE /\ man_msgs' = IF outcome = "appends" THEN man_msgs + 1 ELSE man_msgs
                /\ IF man_i < Len(man_users)
                   THEN man_i' = man_i + 1 /\ man_pc' = "perform"
                   ELSE man_i' = man_i /\ man_pc' = "done"
    /\ UNCHANGED <<man_kind, man_users>>
    /\ UNCHANGED <<varsLogin, varsSign, varsValidate, varsTask, varsRest>>

NextManual == ManualCall \/ PerformEnds

\* one run of manually_game_sign or manually_bbs_sign
SpecManual == InitManualOnly /\ [][NextManual]_vars

NextLogin ==
    \/ MysLogin
    \/ FetchReturns
    \/ LoopHead
    \/ QueryReturns
    \/ SleepReturns
    \/ AfterLoop
    \/ FpReturns
    \/ TokenReturns
    \/ LtokenReturns
    \/ CookieTokenByStokenReturns
    \/ CookieTokenByGameTokenReturns
    \/ ReportAndReturn

Init == InitLogin /\ SignIdle /\ ValidateIdle /\ TaskIdle /\ ManualIdle /\ RestIdle

Next == NextLogin /\ UNCHANGED <<varsSign, varsValidate, varsTask, varsManual, varsRest>>

\* the credential bootstrap
Spec == Init /\ [][Next]_vars

\* the statuses a failure notice is written for: every combination of the
\* failure flags of the three status classes mys_login can end with
NoticeFlags(cls) ==
    {"login_expired", "incorrect_return", "network_error"}
    \cup (IF cls = "QueryGameTokenQrCodeStatus" THEN {"qrcode_expired"} ELSE {})
    \cup (IF cls = "GetCookieStatus"
          THEN {"missing_bbs_uid", "missing_login_ticket", "missing_cookie_token",
                "missing_stoken", "missing_stoken_v1", "missing_stoken_v2",
                "missing_mid"}
          ELSE {})

NoticeStatuses ==
    UNION { { Status(cls, fl) : fl \in SUBSET NoticeFlags(cls) } :
            cls \in {"BaseApiStatus", "QueryGameTokenQrCodeStatus", "GetCookieStatus"} }

\* mys_login at line 153 with a final status still to be reported
InitNotice ==
    /\ preference = [qrcode_wait_time |-> 120, qrcode_query_interval |-> 1]
    /\ users = EmptyDict
    /\ saved_users = EmptyDict
    /\ pc = "report"
    /\ login_count = 1
    /\ device_id = generate_device_id(1, 1)
    /\ login_status \in NoticeStatuses
    /\ fetch_qrcode_ret = None
    /\ qrcode_query_times = 0
    /\ loop_i = 0
    /\ bbs_uid = None
    /\ game_token = None
    /\ fp_status = NoStatus
    /\ message_box = <<>>
    /\ calls = NoCalls
    /\ results = NoResults
    /\ slept = 0
    /\ users_at_call = EmptyDict

InitReport == InitNotice /\ SignIdle /\ ValidateIdle /\ TaskIdle /\ ManualIdle /\ RestIdle

NextNotice ==
    ReportAndReturn /\ UNCHANGED <<varsSign, varsValidate, varsTask, varsManual, varsRest>>

\* the failure notice of mys_login over every final status
SpecNotice == InitReport /\ [][NextNotice]_vars

\* the game sign-in of one account
InitGameSign == InitSign /\ LoginIdle /\ ValidateIdle /\ TaskIdle /\ ManualIdle /\ RestIdle

NextGameSign == NextSign /\ UNCHANGED <<varsValidate, varsTask, varsManual, varsRest>>

SpecSign == InitGameSign /\ [][NextGameSign]_vars

\* the arguments get_validate is called with
ChallengeValues == {None, EmptyStr, <<"gt", 1>>}

\* one call of get_validate, for every configuration and argument
InitGetValidate ==
    /\ sign_pref \in SignPrefs
    /\ sign_user \in SignUsers
    /\ spc = "off"
    /\ InitSignLocals
    /\ v_pc = "call"
    /\ arg_gt \in ChallengeValues
    /\ arg_challenge \in ChallengeValues
    /\ geetest_data = NoResponse
    /\ validate_result = None
    /\ post_count = 0

InitValidate == InitGetValidate /\ LoginIdle /\ TaskIdle /\ ManualIdle /\ RestIdle

\* lines 326-345: the early return, or the call runs up to the await of the POST
GetValidate ==
    /\ v_pc = "call"
    /\ IF ValidateSkipsRequest(sign_pref, sign_user, arg_gt, arg_challenge)
       THEN /\ validate_result' = GeetestResult(EmptyStr, EmptyStr)
            /\ v_pc' = "returned"
       ELSE /\ validate_result' = validate_result
            /\ v_pc' = "post"
    /\ UNCHANGED <<arg_gt, arg_challenge, geetest_data, post_count>>
    /\ UNCHANGED <<varsLogin, varsSign>>

\* lines 346-357: the POST returned or raised
PostReturns ==
    /\ v_pc = "post"
    /\ \E r \in PostResults :
        /\ geetest_data' = r
        /\ validate_result' = ValidateAfterPost(r)
    /\ post_count' = post_count + 1
    /\ v_pc' = "returned"
    /\ UNCHANGED <<arg_gt, arg_challenge>>
    /\ UNCHANGED <<varsLogin, varsSign>>

NextValidate == (GetValidate \/ PostReturns) /\ UNCHANGED <<varsTask, varsManual, varsRest>>

\* get_validate as a function of the configuration and its arguments
SpecValidate == InitValidate /\ [][NextValidate]_vars

\* a call of mys_login or a run of perform_game_sign, every awaited call
\* returning: a coroutine that can be resumed is resumed
\* perform_game_sign at its last signer: the signers before it were passed
\* over by the continue of lines 85-90 (no game record, game not selected)
InitLastSigner ==
    /\ sign_pref \in SignPrefs
    /\ sign_user \in SignUsers
    /\ spc = "idle"
    /\ signer = MaxSigners - 1
    /\ signed = FALSE
    /\ get_info_status = FALSE
    /\ sign_status = NoStatus
    /\ mmt_data = NoMmt
    /\ verify_i = 0
    /\ msgs_list = <<>>
    /\ pushed = <<>>
    /\ sign_calls = 0
    /\ validate_calls = 0
    /\ validate_posts = 0
    /\ cooldowns = 0
    /\ need_verify_seen = FALSE
    /\ validate_resolved = 0

InitLive ==
    \/ Init
    \/ InitLastSigner /\ LoginIdle /\ ValidateIdle /\ TaskIdle /\ ManualIdle /\ RestIdle

NextLive ==
    \/ Next /\ login_count' <= MaxLiveLogins
    \/ NextGameSign

SpecLive == InitLive /\ [][NextLive]_vars /\ WF_vars(NextLive)

(***************************************************************************)
(* The login tasks (task_login.py, ql_login.py)                            *)
(***************************************************************************)
\* mys_login returns message_box, a list (login.py:30 and 185); these are
\* the public attributes of a list
ListAttrs == {"append", "clear", "copy", "count", "extend", "index",
              "insert", "pop", "remove", "reverse", "sort"}

\* whether reading the attribute on the returned list finds it; when it
\* does not the read raises AttributeError
ListHasAttr(name) == name \in ListAttrs

LoginTasks == {"mys_login_task", "main_login_task"}

\* the resumptions of mys_login after its entry
LoginResumes ==
    \/ FetchReturns
    \/ LoopHead
    \/ QueryReturns
    \/ SleepReturns
    \/ AfterLoop
    \/ FpReturns
    \/ TokenReturns
    \/ LtokenReturns
    \/ CookieTokenByStokenReturns
    \/ CookieTokenByGameTokenReturns
    \/ ReportAndReturn

InitLoginTask ==
    /\ lt_kind \in LoginTasks
    /\ lt_pc = "start"
    /\ lt_notified = <<>>
    /\ lt_end = "none"

\* task_login.py:20-21, ql_login.py:33-34: the task awaits mys_login()
LoginTaskCall ==
    /\ lt_pc = "start"
    /\ MysLogin
    /\ lt_pc' = "mys_login"
    /\ UNCHANGED <<lt_kind, lt_notified, lt_end>>

\* mys_login runs inside the task's await
LoginTaskAwaits ==
    /\ lt_pc = "mys_login"
    /\ LoginResumes
    /\ UNCHANGED varsLoginTask

\* task_login.py:22-37, ql_login.py:35-39 and 24-28: mys_login returned its
\* list; the task reads is_success on it
LoginTaskResumes ==
    /\ lt_pc = "mys_login"
    /\ pc = "done"
    /\ ~ListHasAttr("is_success")
    /\ IF lt_kind = "mys_login_task"
       THEN \* the AttributeError is caught at line 34, the text is returned
            /\ lt_notified' = lt_notified
            /\ lt_end' = "returned"
       ELSE \* handle_login_failure pushes FAILURE_TITLE, line 39 re-raises
            /\ lt_notified' = Append(lt_notified, "failure")
            /\ lt_end' = "raised"
    /\ lt_pc' = "done"
    /\ UNCHANGED lt_kind
    /\ UNCHANGED varsLogin

NextLoginTask ==
    \/ LoginTaskCall
    \/ LoginTaskAwaits
    \/ LoginTaskResumes

(***************************************************************************)
(* execute_task_with_logging (config/task_logger.py:139-178)               *)
(***************************************************************************)
\* the parts a returned text is made of: the two words line 169-170 look
\* for, and any other text
StrParts == {"text", "fail_word", "error_word"}

\* the texts of at most MaxStrLen parts
Strs == UNION { [1..n -> StrParts] : n \in 0..MaxStrLen }

\* `word in text`
Contains(text, word) == \E i \in DOMAIN text : text[i] = word

TaskStatuses == {"success", "failed", "partial_success", "skipped"}

\* what the task function can do
TaskReturns ==
    {TaskReturn("raises", <<>>, FALSE, "", 0, 0)}
    \cup { TaskReturn("TaskResult", <<>>, TRUE, st, sc, fc) :
             st \in TaskStatuses, sc \in 0..1, fc \in 0..1 }
    \cup { TaskReturn("str", w, w # <<>>, "", 0, 0) : w \in Strs }
    \cup { TaskReturn("object", <<>>, t, "", 0, 0) : t \in BOOLEAN }

\* the else branch of line 172 left out
ExecuteLogNoElse(l, value) ==
    IF value.truthy /\ value.kind # "str"
    THEN log_success(l, "done")
    ELSE IF /\ value.kind = "str"
            /\ ~Contains(value.words, "fail_word")
            /\ ~Contains(value.words, "error_word")
    THEN log_success(l, "done")
    ELSE l

\* lines 165-173: what is logged for a returned value that is no TaskResult
ExecuteLog(l, value) ==
    IF value.truthy /\ value.kind # "str"
    THEN log_success(l, "done")
    ELSE IF /\ value.kind = "str"
            /\ ~Contains(value.words, "fail_word")
            /\ ~Contains(value.words, "error_word")
    THEN log_success(l, "done")
    ELSE log_failure(l, "failed")

\* the TaskResult the task function built itself, returned as it is
OwnResult(value) ==
    [status |-> value.status, message |-> <<"own", 0>>,
     success_count |-> value.success_count,
     failure_count |-> value.failure_count,
     total_count |-> value.success_count + value.failure_count]

InitExecute ==
    /\ ex_value \in TaskReturns
    /\ ex_pc = "start"
    /\ ex_logger = NewTaskLogger
    /\ ex_result = NoResult

\* lines 153-156: the TaskLogger is entered and task_func awaited
ExecuteCall ==
    /\ ex_pc = "start"
    /\ ex_pc' = "task_func"
    /\ UNCHANGED <<ex_value, ex_logger, ex_result>>

\* lines 156-178: task_func ended
ExecuteTaskEnds ==
    /\ ex_pc = "task_func"
    /\ IF ex_value.kind = "raises"
       THEN /\ ex_logger' = log_failure(ex_logger, "exception")
            /\ ex_result' = get_result(ex_logger')
       ELSE IF ex_value.kind = "TaskResult"
       THEN /\ ex_logger' = ex_logger
            /\ ex_result' = OwnResult(ex_value)
       ELSE /\ ex_logger' = ExecuteLog(ex_logger, ex_value)
            /\ ex_result' = get_result(ex_logger')
    /\ ex_pc' = "returned"
    /\ UNCHANGED ex_value

NextExecuteOnly == ExecuteCall \/ ExecuteTaskEnds

(***************************************************************************)
(* perform_game_sign / perform_bbs_sign: failed_accounts and               *)
(* user.enable_notice (core/game.py:68, 181-182, 194, 309-310)             *)
(***************************************************************************)
\* how the sign-in of one account ends: the account is passed over (sign-in
\* switched off), it is signed in, the platform answers that the login has
\* expired, or it fails otherwise
AccountOutcomes == {"disabled", "signed", "login_expired", "failed"}

AccountLists == UNION { [1..n -> AccountOutcomes] : n \in 0..MaxAccounts }

InitFailed ==
    /\ fa_kind \in {"perform_game_sign", "perform_bbs_sign"}
    /\ fa_accounts \in AccountLists
    /\ fa_pc = "start"
    /\ fa_i = 0
    /\ failed_accounts = <<>>
    /\ fa_enable_notice \in BOOLEAN
    /\ fa_notice_at_call = fa_enable_notice

\* lines 68 and 194: failed_accounts = [] and the loop is entered
PerformCall ==
    /\ fa_pc = "start"
    /\ failed_accounts' = <<>>
    /\ fa_i' = 0
    /\ fa_pc' = "loop"
    /\ UNCHANGED <<fa_kind, fa_accounts, fa_enable_notice, fa_notice_at_call>>

\* lines 69-178 and 195-306: one account is processed; whatever its
\* outcome, no line appends to failed_accounts or assigns enable_notice
AccountProcessed ==
    /\ fa_pc = "loop"
    /\ fa_i < Len(fa_accounts)
    /\ fa_i' = fa_i + 1
    /\ UNCHANGED <<fa_kind, fa_accounts, fa_pc, failed_accounts,
                   fa_enable_notice, fa_notice_at_call>>

\* lines 181-182 and 309-310: after the loop
PerformReturns ==
    /\ fa_pc = "loop"
    /\ fa_i = Len(fa_accounts)
    /\ fa_enable_notice' = IF Len(failed_accounts) = Len(fa_accounts)
                           THEN FALSE
                           ELSE fa_enable_notice
    /\ fa_pc' = "done"
    /\ UNCHANGED <<fa_kind, fa_accounts, fa_i, failed_accounts, fa_notice_at_call>>

NextFailedOnly == PerformCall \/ AccountProcessed \/ PerformReturns

(***************************************************************************)
(* genshin_note_check (core/game.py:339-432)                               *)
(***************************************************************************)
\* NoteNoticeStatus().genshin, lines 318-323
NewNoteNotice ==
    [current_resin |-> FALSE, current_resin_full |-> FALSE,
     current_home_coin |-> FALSE, transformer |-> FALSE]

\* dict.setdefault
SetDefault(d, k, v) == IF k \in DOMAIN d THEN d ELSE DictSet(d, k, v)

\* resin values a note can report and thresholds an account can have
ResinValues == {120, 160, 200, 240}

Thresholds == {160, 200}

TransformerStates == {"absent", "ready", "cooling"}

\* the threshold reminder not guarded by current_resin
ResinNoticeUnguarded(notice, current_resin, user_resin_threshold) ==
    IF current_resin >= user_resin_threshold
    THEN IF ~notice.current_resin_full
         THEN IF current_resin = 200
              THEN [notice |-> [notice EXCEPT !.current_resin_full = TRUE],
                    msg |-> {"resin_full"}]
              ELSE [notice |-> [notice EXCEPT !.current_resin_full = FALSE,
                                              !.current_resin = TRUE],
                    msg |-> {"resin_threshold"}]
         ELSE [notice |-> notice, msg |-> {}]
    ELSE [notice |-> [notice EXCEPT !.current_resin = FALSE,
                                    !.current_resin_full = FALSE],
          msg |-> {}]

\* lines 372-387: the resin reminder
ResinNotice(notice, current_resin, user_resin_threshold) ==
    IF current_resin >= user_resin_threshold
    THEN IF ~notice.current_resin_full
         THEN IF current_resin = 200
              THEN [notice |-> [notice EXCEPT !.current_resin_full = TRUE],
                    msg |-> {"resin_full"}]
              ELSE IF ~notice.current_resin
              THEN [notice |-> [notice EXCEPT !.current_resin_full = FALSE,
                                              !.current_resin = TRUE],
                    msg |-> {"resin_threshold"}]
              ELSE [notice |-> notice, msg |-> {}]
         ELSE [notice |-> notice, msg |-> {}]
    ELSE [notice |-> [notice EXCEPT !.current_resin = FALSE,
                                    !.current_resin_full = FALSE],
          msg |-> {}]

\* lines 389-397: the home coin reminder
HomeCoinNotice(notice, coin_full) ==
    IF coin_full
    THEN IF ~notice.current_home_coin
         THEN [notice |-> [notice EXCEPT !.current_home_coin = TRUE],
               msg |-> {"home_coin_full"}]
         ELSE [notice |-> notice, msg |-> {}]
    ELSE [notice |-> [notice EXCEPT !.current_home_coin = FALSE], msg |-> {}]

\* lines 399-410: the transformer reminder
TransformerNotice(notice, transformer) ==
    IF transformer # "absent"
    THEN IF transformer = "ready"
         THEN IF ~notice.transformer
              THEN [notice |-> [notice EXCEPT !.transformer = TRUE],
                    msg |-> {"transformer_ready"}]
              ELSE [notice |-> notice, msg |-> {}]
         ELSE [notice |-> [notice EXCEPT !.transformer = FALSE], msg |-> {}]
    ELSE [notice |-> [notice EXCEPT !.transformer = TRUE], msg |-> {}]

InitNote ==
    /\ \E n \in 1..MaxNoteAccounts :
        /\ nc_enabled \in [1..n -> BOOLEAN]
        /\ nc_threshold \in [1..n -> Thresholds]
        /\ full_sent = [a \in 1..n |-> FALSE]
        /\ threshold_sent = [a \in 1..n |-> FALSE]
    /\ note_notice_status = EmptyDict
    /\ nc_pc = "idle"
    /\ nc_i = 0
    /\ nc_checked = {}
    /\ nc_pushed = {}

\* line 339: a call of genshin_note_check for the user
NoteCheckCall ==
    /\ nc_pc \in {"idle", "returned"}
    /\ nc_i' = 1
    /\ nc_checked' = {}
    /\ nc_pushed' = {}
    /\ nc_pc' = "loop"
    /\ UNCHANGED <<nc_enabled, nc_threshold, note_notice_status, full_sent,
                   threshold_sent>>

\* lines 347-351: the head of the loop over the accounts, up to the await
\* of genshin_note
NoteLoop ==
    /\ nc_pc = "loop"
    /\ nc_pushed' = {}
    /\ IF nc_i > Len(nc_enabled)
       THEN /\ nc_pc' = "returned"
            /\ UNCHANGED <<note_notice_status, nc_i, nc_checked>>
       ELSE /\ note_notice_status' =
                  SetDefault(note_notice_status, nc_i, NewNoteNotice)
            /\ IF nc_enabled[nc_i]
               THEN /\ nc_pc' = "genshin_note"
                    /\ nc_checked' = nc_checked \cup {nc_i}
                    /\ nc_i' = nc_i
               ELSE /\ nc_pc' = "loop"
                    /\ nc_checked' = nc_checked
                    /\ nc_i' = nc_i + 1
    /\ UNCHANGED <<nc_enabled, nc_threshold, full_sent, threshold_sent>>

\* lines 351-432: genshin_note returned
NoteReturns ==
    /\ nc_pc = "genshin_note"
    /\ \E board_ok \in BOOLEAN, current_resin \in ResinValues,
          coin_full \in BOOLEAN, transformer \in TransformerStates :
        LET genshin_notice == note_notice_status[nc_i]
            r1 == ResinNotice(genshin_notice, current_resin, nc_threshold[nc_i])
            r2 == HomeCoinNotice(r1.notice, coin_full)
            r3 == TransformerNotice(r2.notice, transformer)
            msg == r1.msg \cup r2.msg \cup r3.msg
            do_notice == msg # {}
            below == current_resin < nc_threshold[nc_i]
        IN  IF ~board_ok
            THEN \* line 366: continue
                 /\ nc_pc' = "loop"
                 /\ nc_i' = nc_i + 1
                 /\ nc_pushed' = {}
                 /\ UNCHANGED <<note_notice_status, full_sent, threshold_sent>>
            ELSE /\ note_notice_status' =
                       [note_notice_status EXCEPT ![nc_i] = r3.notice]
                 /\ full_sent' = [full_sent EXCEPT ![nc_i] =
                        IF below THEN FALSE ELSE @ \/ "resin_full" \in msg]
                 /\ threshold_sent' = [threshold_sent EXCEPT ![nc_i] =
                        IF below THEN FALSE ELSE @ \/ "resin_threshold" \in msg]
                 /\ IF ~do_notice
                    THEN \* lines 412-416: return
                         /\ nc_pc' = "returned"
                         /\ nc_i' = nc_i
                         /\ nc_pushed' = {}
                    ELSE \* line 432: push, then the next account
                         /\ nc_pc' = "loop"
                         /\ nc_i' = nc_i + 1
                         /\ nc_pushed' = msg
    /\ UNCHANGED <<nc_enabled, nc_threshold, nc_checked>>

NextNoteOnly == NoteCheckCall \/ NoteLoop \/ NoteReturns

(***************************************************************************)
(* PushHandler.push (utils/push.py:485-520)                                *)
(***************************************************************************)
\* lines 56-63
SUPPORTED_PUSH_METHODS ==
    {"telegram", "dingrobot", "feishubot", "bark", "gotify", "webhook"}

\* names a configuration can list: two supported ones and one that is not
ServerNames == {"bark", "telegram", "wechat"}

ServerLists == UNION { [1..n -> ServerNames] : n \in 0..MaxServers }

\* what the method of a server does: it returns True or False, or raises
MethodOutcomes == {"true", "false", "raises"}

\* any(results) in place of all(results)
PushResultAny(results_list) ==
    IF results_list # <<>>
    THEN \E k \in DOMAIN results_list : results_list[k]
    ELSE TRUE

\* line 520: all(results) if results else True
PushResult(results_list) ==
    IF results_list # <<>>
    THEN \A k \in DOMAIN results_list : results_list[k]
    ELSE TRUE

InitPush ==
    /\ push_enable \in BOOLEAN
    /\ push_servers \in ServerLists
    /\ push_pc = "start"
    /\ push_i = 0
    /\ push_results = <<>>
    /\ push_attempted = <<>>
    /\ push_outcomes = <<>>
    /\ push_return = None

\* lines 485-503: entry, up to the loop
PushCall ==
    /\ push_pc = "start"
    /\ IF ~push_enable
       THEN /\ push_return' = <<TRUE>>
            /\ push_pc' = "returned"
            /\ push_i' = push_i
       ELSE /\ push_return' = push_return
            /\ push_pc' = "loop"
            /\ push_i' = 1
    /\ push_results' = <<>>
    /\ UNCHANGED <<push_enable, push_servers, push_attempted, push_outcomes>>

\* lines 504-518: one iteration of the loop over config.push_servers
PushServer ==
    /\ push_pc = "loop"
    /\ push_i <= Len(push_servers)
    /\ LET push_server == push_servers[push_i]
       IN  IF push_server \notin SUPPORTED_PUSH_METHODS
           THEN UNCHANGED <<push_results, push_attempted, push_outcomes>>
           ELSE \E outcome \in MethodOutcomes :
                 /\ push_attempted' = Append(push_attempted, push_server)
                 /\ push_outcomes' = Append(push_outcomes, outcome)
                 /\ push_results' = Append(push_results, outcome = "true")
    /\ push_i' = push_i + 1
    /\ UNCHANGED <<push_enable, push_servers, push_pc, push_return>>

\* line 520: after the loop
PushReturns ==
    /\ push_pc = "loop"
    /\ push_i > Len(push_servers)
    /\ push_return' = <<PushResult(push_results)>>
    /\ push_pc' = "returned"
    /\ UNCHANGED <<push_enable, push_servers, push_i, push_results,
                   push_attempted, push_outcomes>>

NextPushOnly == PushCall \/ PushServer \/ PushReturns

(***************************************************************************)
(* Specifications of the login tasks, execute_task_with_logging, the       *)
(* account loop of perform_*_sign, genshin_note_check and PushHandler.push *)
(***************************************************************************)
varsCore == <<varsSign, varsValidate, varsTask, varsManual>>

CoreIdle == SignIdle /\ ValidateIdle /\ TaskIdle /\ ManualIdle

\* a login task over one call of mys_login
InitLoginTaskOnly ==
    /\ InitLoginTask
    /\ InitLogin
    /\ CoreIdle /\ ExecuteIdle /\ FailedIdle /\ NoteIdle /\ PushIdle

NextLoginTaskRun ==
    NextLoginTask
        /\ UNCHANGED <<varsCore, varsExecute, varsFailed, varsNote, varsPush>>

SpecLoginTask == InitLoginTaskOnly /\ [][NextLoginTaskRun]_vars

\* execute_task_with_logging over the task functions explored
InitExecuteOnly ==
    /\ InitExecute
    /\ LoginIdle /\ CoreIdle /\ LoginTaskIdle /\ FailedIdle /\ NoteIdle /\ PushIdle

NextExecute ==
    NextExecuteOnly
        /\ UNCHANGED <<varsLogin, varsCore, varsLoginTask, varsFailed, varsNote,
                       varsPush>>

SpecExecute == InitExecuteOnly /\ [][NextExecute]_vars

\* the account loop of perform_game_sign / perform_bbs_sign
InitFailedOnly ==
    /\ InitFailed
    /\ LoginIdle /\ CoreIdle /\ LoginTaskIdle /\ ExecuteIdle /\ NoteIdle /\ PushIdle

NextFailed ==
    NextFailedOnly
        /\ UNCHANGED <<varsLogin, varsCore, varsLoginTask, varsExecute, varsNote,
                       varsPush>>

SpecFailed == InitFailedOnly /\ [][NextFailed]_vars

\* any number of calls of genshin_note_check for one user
InitNoteOnly ==
    /\ InitNote
    /\ LoginIdle /\ CoreIdle /\ LoginTaskIdle /\ ExecuteIdle /\ FailedIdle /\ PushIdle

NextNote ==
    NextNoteOnly
        /\ UNCHANGED <<varsLogin, varsCore, varsLoginTask, varsExecute,
                       varsFailed, varsPush>>

SpecNote == InitNoteOnly /\ [][NextNote]_vars

\* one call of PushHandler.push
InitPushOnly ==
    /\ InitPush
    /\ LoginIdle /\ CoreIdle /\ LoginTaskIdle /\ ExecuteIdle /\ FailedIdle /\ NoteIdle

NextPush ==
    NextPushOnly
        /\ UNCHANGED <<varsLogin, varsCore, varsLoginTask, varsExecute,
                       varsFailed, varsNote>>

SpecPush == InitPushOnly /\ [][NextPush]_vars

TypeOK ==
    /\ pc \in {"off", "idle", "done", "loop_head", "sleep", "after_loop", "report"} \cup Endpoints
    /\ login_count \in 0..MaxLogins
    /\ DOMAIN users \subseteq Keys

(***************************************************************************)
(* Vocabulary of the properties                                            *)
(***************************************************************************)
HasAccountIn(us, uid) == uid \in DOMAIN us /\ uid \in DOMAIN us[uid].accounts

\* the account of the current call exists in the store
HasAccount == HasAccountIn(users, bbs_uid)

\* the account of the current call was not in the store when the call began
FirstTime == ~HasAccountIn(users_at_call, bbs_uid)

SessionCorrect == HasAccount /\ is_correct(Account.cookies)

Success == message_box = <<>>

ExchangeEndpoints == {"get_token_by_game_token", "get_ltoken_by_stoken",
                      "get_cookie_token_by_stoken", "get_cookie_token_by_game_token"}

\* the primary exchange of this call returned a token of the given form
PrimaryReturned(field, prefix) ==
    /\ HasAccount
    /\ StatusBool(results["get_token_by_game_token"])
    /\ Account.cookies[field] = <<prefix, login_count>>

(***************************************************************************)
(* C1                                                                      *)
(***************************************************************************)
\* C1 (as stated): when mys_login has returned, it returned without a failure
\* notice if and only if the session of the account is correct.
C1_SuccessIffCorrect ==
    pc = "done" => (Success <=> SessionCorrect)

\* C1 (amended): a call that obtained an account id and returned without a
\* failure notice leaves that account's session correct; for an account that
\* did not exist before the call the converse holds too: a correct session
\* means the call obtained the account id and returned without a notice.
C1_SuccessCorrectFirstTime ==
    pc = "done" =>
        /\ (Success /\ bbs_uid # None) => SessionCorrect
        /\ FirstTime => (SessionCorrect => (Success /\ bbs_uid # None))

C1_Witness ==
    /\ pc = "done"
    /\ Success
    /\ SessionCorrect
    /\ ~FirstTime

(***************************************************************************)
(* C2                                                                      *)
(***************************************************************************)
\* C2: once the fingerprint exchange of a call has failed, no primary or
\* derived token exchange is requested in that call and the call returns a
\* failure notice.
C2_FpFailureIsFatal ==
    (calls["get_device_fp"] > 0 /\ pc # "get_device_fp" /\ ~StatusBool(fp_status)) =>
        /\ \A e \in ExchangeEndpoints : calls[e] = 0
        /\ pc = "done" => ~Success

(***************************************************************************)
(* C3                                                                      *)
(***************************************************************************)
\* C3: after a poll has reported the ticket expired, no step of the call
\* issues a poll or an exchange request, and the call returns the
\* qrcode_expired failure.
C3_ExpiredTerminates ==
    [][ Flag(login_status, "qrcode_expired") =>
            /\ \A e \in Endpoints \ {"fetch_game_token_qrcode"} : calls'[e] <= calls[e]
            /\ pc' = "done" =>
                  /\ Len(message_box') = 1
                  /\ \E k \in DOMAIN message_box'[1] :
                        message_box'[1][k] = "qrcode_expired" ]_vars

(***************************************************************************)
(* C4                                                                      *)
(***************************************************************************)
\* C4: a call that got a ticket and ended its polling without a scan
\* confirmation returns a failure notice.
C4_TimeoutReportsFailure ==
    (pc = "done" /\ fetch_qrcode_ret # None /\ (bbs_uid = None \/ game_token = None))
        => ~Success

(***************************************************************************)
(* C5                                                                      *)
(***************************************************************************)
\* C5: a call that exhausted its poll budget without a confirmation issued
\* no fingerprint and no token exchange request and left the accounts, in
\* memory and in the saved store, as they were when it began.
C5_TimeoutNoExchange ==
    (/\ pc \in {"report", "done"}
     /\ fetch_qrcode_ret # None
     /\ (bbs_uid = None \/ game_token = None)) =>
        /\ calls["query_game_token_qrcode"] = qrcode_query_times
        /\ calls["get_device_fp"] = 0
        /\ \A e \in ExchangeEndpoints : calls[e] = 0
        /\ users = users_at_call
        /\ saved_users = users_at_call

C5_Witness ==
    /\ pc = "done"
    /\ preference = [qrcode_wait_time |-> 10, qrcode_query_interval |-> 5]
    /\ calls["query_game_token_qrcode"] = 2
    /\ slept = 10
    /\ Flag(login_status, "qrcode_init")
    /\ ~Success
    /\ login_count = 2
    /\ users # EmptyDict

C7_NoTicketTerminates ==
    (pc \in {"loop_head", "query_game_token_qrcode", "sleep", "after_loop",
             "report", "done"} \cup ExchangeEndpoints \cup {"get_device_fp"}
     /\ fetch_qrcode_ret = None) =>
        /\ pc \in {"report", "done"}
        /\ \A e \in Endpoints \ {"fetch_game_token_qrcode"} : calls[e] = 0
        /\ pc = "done" => message_box = << <<"incorrect_return">> >>

C7_Witness ==
    /\ pc = "done"
    /\ fetch_qrcode_ret = None
    /\ message_box = << <<"incorrect_return">> >>

(***************************************************************************)
(* C8                                                                      *)
(***************************************************************************)
\* C8: a call whose primary exchange returned a v2 token has, when it
\* returns, requested the ltoken exchange once and the cookie-token exchange
\* by stoken once; if the ltoken exchange failed and the cookie-token exchange
\* succeeded, the session holds the cookie-token of this call and no ltoken
\* of this call, and the call returns without a failure notice.
C8_V2ExchangesIndependent ==
    (pc = "done" /\ PrimaryReturned("stoken_v2", "v2_")) =>
        /\ calls["get_ltoken_by_stoken"] = 1
        /\ calls["get_cookie_token_by_stoken"] = 1
        /\ (/\ ~StatusBool(results["get_ltoken_by_stoken"])
            /\ StatusBool(results["get_cookie_token_by_stoken"])) =>
              /\ Account.cookies.cookie_token = <<"cookie_token", login_count>>
              /\ Account.cookies.ltoken # <<"ltoken", login_count>>
              /\ SessionCorrect
              /\ Success

C8_Witness ==
    /\ pc = "done"
    /\ PrimaryReturned("stoken_v2", "v2_")
    /\ ~StatusBool(results["get_ltoken_by_stoken"])
    /\ StatusBool(results["get_cookie_token_by_stoken"])
    /\ Account.cookies.ltoken = None
    /\ Success

(***************************************************************************)
(* C9                                                                      *)
(***************************************************************************)
\* C9: a call whose primary exchange succeeded has, when it returns, run
\* exactly the derived path of the form of the token that exchange returned:
\* v2 the two stoken-based exchanges, v1 the one game-token-based exchange.
C9_PathByReturnedForm ==
    (pc = "done" /\ HasAccount /\ StatusBool(results["get_token_by_game_token"])) =>
        IF PrimaryReturned("stoken_v2", "v2_")
        THEN /\ calls["get_ltoken_by_stoken"] = 1
             /\ calls["get_cookie_token_by_stoken"] = 1
             /\ calls["get_cookie_token_by_game_token"] = 0
        ELSE /\ calls["get_ltoken_by_stoken"] = 0
             /\ calls["get_cookie_token_by_stoken"] = 0
             /\ calls["get_cookie_token_by_game_token"] = 1

(***************************************************************************)
(* C10                                                                     *)
(***************************************************************************)
\* C10: no step of mys_login turns a set field of a stored session into an
\* unset one, and a session that is correct stays correct.
C10_TokensAdditive ==
    [][ \A u \in DOMAIN users : \A a \in DOMAIN users[u].accounts :
            /\ HasAccountIn(users', u)
            /\ a \in DOMAIN users'[u].accounts
            /\ \A f \in CookieFields :
                  Truthy(users[u].accounts[a].cookies[f])
                      => Truthy(users'[u].accounts[a].cookies[f])
            /\ is_correct(users[u].accounts[a].cookies)
                  => is_correct(users'[u].accounts[a].cookies) ]_vars

C10_Witness ==
    /\ pc = "done"
    /\ ~FirstTime
    /\ is_correct(users_at_call[bbs_uid].accounts[bbs_uid].cookies)
    /\ calls["get_token_by_game_token"] = 1
    /\ ~Success
    /\ SessionCorrect

(***************************************************************************)
(* C11                                                                     *)
(***************************************************************************)
\* C11: when mys_login returns after a failed primary token exchange, the
\* saved store equals the store in memory and holds the account with its
\* account id and the fingerprint the fingerprint exchange returned, no
\* derived-token exchange was requested, and a failure notice is returned.
C11_PartialSessionSaved ==
    (/\ pc = "done"
     /\ calls["get_token_by_game_token"] = 1
     /\ ~StatusBool(results["get_token_by_game_token"])) =>
        /\ saved_users = users
        /\ HasAccountIn(saved_users, bbs_uid)
        /\ CookiesBbsUid(saved_users[bbs_uid].accounts[bbs_uid].cookies) = bbs_uid
        /\ StatusBool(fp_status) =>
              saved_users[bbs_uid].accounts[bbs_uid].device_fp
                  = <<"fp", login_count, 1>>
        /\ calls["get_ltoken_by_stoken"] = 0
        /\ calls["get_cookie_token_by_stoken"] = 0
        /\ calls["get_cookie_token_by_game_token"] = 0
        /\ ~Success

C11_Witness ==
    /\ pc = "done"
    /\ calls["get_token_by_game_token"] = 1
    /\ ~StatusBool(results["get_token_by_game_token"])
    /\ FirstTime
    /\ HasAccountIn(saved_users, bbs_uid)
    /\ saved_users[bbs_uid].accounts[bbs_uid].cookies
          = SetBbsUid(NewCookies, bbs_uid)
    /\ saved_users[bbs_uid].accounts[bbs_uid].device_fp = <<"fp", login_count, 1>>

(***************************************************************************)
(* C13                                                                     *)
(***************************************************************************)
\* C13: a call that returns a failure notice returns one notice, and that
\* notice names exactly one cause.
C13_ExactlyOneCause ==
    (pc = "done" /\ ~Success) =>
        /\ Len(message_box) = 1
        /\ Len(message_box[1]) = 1

(***************************************************************************)
(* C14                                                                     *)
(***************************************************************************)
\* C14: in one call of mys_login the fingerprint exchange and each token
\* exchange is requested at most once.
C14_ExchangeAtMostOnce ==
    \A e \in ExchangeEndpoints \cup {"get_device_fp"} : calls[e] <= 1

C14_Witness ==
    /\ pc = "done"
    /\ calls["get_ltoken_by_stoken"] = 1
    /\ ~StatusBool(results["get_ltoken_by_stoken"])
    /\ calls["get_cookie_token_by_stoken"] = 1
    /\ ~StatusBool(results["get_cookie_token_by_stoken"])

(***************************************************************************)
(* C12 (checked under SpecNotice)                                          *)
(***************************************************************************)
MissingFlags == {"missing_bbs_uid", "missing_login_ticket", "missing_cookie_token",
                 "missing_stoken", "missing_stoken_v1", "missing_stoken_v2",
                 "missing_mid"}

\* the first flag of a precedence order that is set on the status
FirstSet(order, status) ==
    order[CHOOSE k \in DOMAIN order :
            /\ Flag(status, order[k])
            /\ \A j \in DOMAIN order : j < k => ~Flag(status, order[j])]

StatedOrder == <<"missing_bbs_uid", "missing_stoken", "missing_cookie_token">>

TestedOrder == <<"missing_bbs_uid", "missing_login_ticket", "missing_cookie_token",
                 "missing_stoken", "missing_stoken_v1", "missing_stoken_v2",
                 "missing_mid">>

\* C12 (as stated): a notice written for a status with missing-field flags
\* names the first that is set in the order account id, super-token,
\* cookie-token.
C12_NoticeStatedOrder ==
    (/\ pc = "done"
     /\ login_status.cls = "GetCookieStatus"
     /\ login_status.flags \cap MissingFlags # {}
     /\ login_status.flags \cap MissingFlags
            \subseteq {"missing_bbs_uid", "missing_stoken", "missing_cookie_token"}) =>
        /\ Len(message_box) = 1
        /\ message_box[1][1] = FirstSet(StatedOrder, login_status)

\* C12 (amended): a notice written for a status with missing-field flags
\* names first the first that is set in the order account id, login ticket,
\* cookie-token, super-token, super-token v1, super-token v2, mid, and names
\* no other missing field.
C12_NoticeTestedOrder ==
    (/\ pc = "done"
     /\ login_status.cls = "GetCookieStatus"
     /\ login_status.flags \cap MissingFlags # {}) =>
        /\ Len(message_box) = 1
        /\ message_box[1][1] = FirstSet(TestedOrder, login_status)
        /\ \A k \in DOMAIN message_box[1] :
              k > 1 => message_box[1][k] \notin MissingFlags

C12_Witness ==
    /\ pc = "done"
    /\ login_status = Status("GetCookieStatus", {"missing_stoken", "missing_cookie_token"})
    /\ message_box[1][1] = "missing_cookie_token"

(***************************************************************************)
(* C15 .. C20 (checked under SpecSign)                                     *)
(***************************************************************************)
\* the sign attempt of the current signer has made its last sign and
\* get_validate call
AttemptOver == spc \in {"report", "sleep_failed", "sleep_attempt"}

\* the failure messages appended to msgs_list for signer k
FailureReports(k) ==
    { j \in DOMAIN msgs_list :
        msgs_list[j][1] \in FailureKinds /\ msgs_list[j][2] = k }

\* C15: for a signer on which sign-in is attempted and whose sign action
\* never returns a status requesting verification, the sign action is called
\* exactly once and get_validate is never called.
C15_NoVerifySignsOnce ==
    /\ ~need_verify_seen => (sign_calls <= 1 /\ validate_calls = 0)
    /\ (AttemptOver /\ ~need_verify_seen) => sign_calls = 1

C15_Witness ==
    /\ spc = "sleep_failed"
    /\ ~need_verify_seen
    /\ Flag(sign_status, "login_expired")
    /\ Truthy(sign_pref.geetest_url)
    /\ sign_calls = 1
    /\ signer = 2

\* C16: for one signer the sign action is called at most 4 times and
\* get_validate at most 3 times.
C16_CallBounds ==
    /\ sign_calls <= 4
    /\ validate_calls <= 3
    /\ sign_calls <= 1 + validate_calls

C16_Witness ==
    /\ AttemptOver
    /\ sign_calls = 4
    /\ validate_calls = 3

\* C17: the sign action is re-invoked only after a get_validate call that
\* returned a validation token; when none of the 3 get_validate calls did,
\* the sign action was called exactly once.
C17_ResignOnlyWhenResolved ==
    /\ sign_calls <= 1 + validate_resolved
    /\ (AttemptOver /\ validate_calls = 3 /\ validate_resolved = 0) => sign_calls = 1

\* C18: once a verified re-invocation of the sign action has returned a
\* status that does not request verification, the loop is left: no further
\* iteration starts and neither get_validate nor the sign action is called.
C18_LoopStopsOnNonVerify ==
    [][ (/\ spc = "verify_head"
         /\ sign_calls >= 2
         /\ ~Flag(sign_status, "need_verify")) =>
            /\ spc' = "report"
            /\ msgs_list' = msgs_list
            /\ sign_calls' = sign_calls
            /\ validate_calls' = validate_calls ]_vars

\* C19: after a failed sign attempt exactly one failure message is reported
\* for the signer: the expired-session one when the final status is
\* login_expired, else the verification one when it still requests
\* verification.
C19_OneFailureReported ==
    (spc \in {"sleep_failed", "sleep_attempt"} /\ ~StatusBool(sign_status)) =>
        /\ Cardinality(FailureReports(signer)) = 1
        /\ \A j \in FailureReports(signer) :
              /\ Flag(sign_status, "login_expired") => msgs_list[j][1] = "login_expired"
              /\ (Flag(sign_status, "need_verify") /\ ~Flag(sign_status, "login_expired"))
                    => msgs_list[j][1] = "need_verify"

\* C20: when the iteration of a signer on which sign-in was attempted is
\* over, the cooldown sleep has run exactly once.
C20_CooldownOnce ==
    (spc = "next_signer" /\ sign_calls >= 1) => cooldowns = 1

(***************************************************************************)
(* C21, C22 (checked under SpecValidate)                                   *)
(***************************************************************************)
\* C21: get_validate issues no POST and returns the unresolved result when
\* the solver url selected for the call (the user's when global_geetest is
\* off, the preference's when it is on) is not set or gt or challenge is
\* empty; otherwise it issues exactly one POST.
C21_PostOnlyWhenSelected ==
    LET url == IF sign_pref.global_geetest THEN sign_pref.geetest_url
               ELSE sign_user.geetest_url
        unresolved == \/ url = None
                      \/ arg_gt \in {None, EmptyStr}
                      \/ arg_challenge \in {None, EmptyStr}
    IN  /\ post_count <= 1
        /\ v_pc = "returned" =>
              IF unresolved
              THEN post_count = 0 /\ validate_result = GeetestResult(EmptyStr, EmptyStr)
              ELSE post_count = 1
        /\ v_pc = "post" => ~unresolved

C21_Witness ==
    /\ v_pc = "returned"
    /\ ~sign_pref.global_geetest
    /\ sign_pref.geetest_url = SolverUrl
    /\ sign_user.geetest_url = None
    /\ arg_gt = <<"gt", 1>>
    /\ arg_challenge = <<"gt", 1>>
    /\ post_count = 0
    /\ validate_result = GeetestResult(EmptyStr, EmptyStr)

Succeeding == { i \in DOMAIN data_list : data_list[i] # "raises" }

\* the items of data_list on which task_func raises
Raising == { i \in DOMAIN data_list : data_list[i] = "raises" }

\* the calls of task_func made for item i
StartsOf(i) == { k \in DOMAIN events : events[k] = <<"start", i>> }

\* C23: for an empty cookie list the TaskResult returned by _weibo_sign_impl
\* has status skipped and both counters zero, and no task_func call was made.
C23_EmptyListSkipped ==
    (wb_pc = "returned" /\ data_list = <<>>) =>
        /\ result.status = "skipped"
        /\ result.success_count = 0
        /\ result.failure_count = 0
        /\ events = <<>>

\* C24: the task_func calls of run_task are made for items 1, 2, ... in this
\* order, each starting after the one before has ended, and the line of
\* item j is the j-th line of the list and of the returned message.
C24_InOrderOneAtATime ==
    /\ \A k \in DOMAIN events :
          events[k] = IF k % 2 = 1 THEN <<"start", (k + 1) \div 2>>
                      ELSE <<"end", k \div 2>>
    /\ \A j \in DOMAIN result_list : result_list[j][1] = j
    /\ (rt_pc = "returned" /\ data_list # <<>>) =>
          /\ Len(task_result.message) = Len(data_list)
          /\ \A j \in DOMAIN task_result.message : task_result.message[j][1] = j

C24_Witness ==
    /\ rt_pc = "returned"
    /\ Len(data_list) = 3
    /\ data_list[2] = "raises"
    /\ Len(events) = 6
    /\ task_result.message[3][1] = 3

\* C25: when run_task returns, task_func was called exactly once for every
\* item, success_count is the number of items on which it returned,
\* failure_count the number on which it raised, there is one line per item,
\* and the line of a raising item holds the text of its error.
C25_PartialFailureIsolated ==
    rt_pc = "returned" =>
        /\ \A i \in DOMAIN data_list : Cardinality(StartsOf(i)) = 1
        /\ Len(events) = 2 * Len(data_list)
        /\ task_result.success_count = Cardinality(Succeeding)
        /\ task_result.failure_count = Cardinality(Raising)
        /\ Len(task_result.message) = Len(data_list)
        /\ \A i \in Raising :
              /\ task_result.message[i][1] = i
              /\ task_result.message[i][2][2] = ErrorText

C25_Witness ==
    /\ rt_pc = "returned"
    /\ Len(data_list) = 3
    /\ Raising = {1, 3}
    /\ task_result.success_count = 1
    /\ task_result.failure_count = 2

\* C26: the TaskResult returned for a run over one or more accounts carries
\* the number of accounts that succeeded as success_count and the number
\* that failed as failure_count.
C26_ResultCountsAccounts ==
    (wb_pc = "returned" /\ data_list # <<>>) =>
        /\ result.success_count = Cardinality(Succeeding)
        /\ result.failure_count = Cardinality(Raising)

(***************************************************************************)
(* C27 (checked under SpecTaskLogger)                                      *)
(***************************************************************************)
\* the status stated for a pair of counters
Quadrant(sc, fc) ==
    CASE sc = 0 /\ fc = 0 -> "skipped"
      [] sc > 0 /\ fc = 0 -> "success"
      [] sc > 0 /\ fc > 0 -> "partial_success"
      [] sc = 0 /\ fc > 0 -> "failed"

\* the log_success and log_failure calls recorded in the messages
Logged(mark) ==
    { k \in DOMAIN task_logger.messages : task_logger.messages[k][1] = mark }

\* C27: after any sequence of log calls the counters are the numbers of
\* log_success and log_failure calls, and a get_result call reports these
\* counters and the status (0,0) skipped, (>0,0) success, (>0,>0)
\* partial_success, (0,>0) failed.
C27_StatusFromCounters ==
    /\ [](/\ task_logger.success_count = Cardinality(Logged("ok"))
          /\ task_logger.failure_count = Cardinality(Logged("fail")))
    /\ [][ (wb_pc = "logger" /\ task_logger' = task_logger) =>
              /\ result'.status =
                    Quadrant(task_logger.success_count, task_logger.failure_count)
              /\ result'.success_count = task_logger.success_count
              /\ result'.failure_count = task_logger.failure_count ]_vars

C27_Witness ==
    /\ wb_pc = "logger"
    /\ Len(task_logger.messages) = 4
    /\ Cardinality(Logged("warn")) = 1
    /\ Cardinality(Logged("info")) = 1
    /\ result.status = "partial_success"
    /\ result.success_count = 1
    /\ result.failure_count = 1

(***************************************************************************)
(* C28 (checked under SpecManual)                                          *)
(***************************************************************************)
\* C28: an error raised by perform_game_sign or perform_bbs_sign for one
\* user does not leave manually_game_sign / manually_bbs_sign: the function
\* ends only by returning, after every user was processed.
C28_ErrorNeverAborts ==
    /\ man_pc # "raised"
    /\ man_pc = "done" => man_i = Len(man_users)

(***************************************************************************)
(* C29 (checked under Spec)                                                *)
(***************************************************************************)
\* C29: no step of mys_login changes device_id_ios or device_id_android of
\* an account that is already bound, and the account stays bound.
C29_DeviceIdsKept ==
    [][ \A u \in Uids :
          HasAccountIn(users, u) =>
              /\ HasAccountIn(users', u)
              /\ users'[u].accounts[u].device_id_ios
                    = users[u].accounts[u].device_id_ios
              /\ users'[u].accounts[u].device_id_android
                    = users[u].accounts[u].device_id_android ]_vars

C29_Witness ==
    /\ pc = "done"
    /\ login_count = 2
    /\ HasAccountIn(users_at_call, bbs_uid)
    /\ HasAccount
    /\ device_id = generate_device_id(2, 1)
    /\ Account.device_id_ios = generate_device_id(1, 1)
    /\ Account.device_id_android = generate_device_id(1, 2)
    /\ Account.device_fp = <<"fp", 2, 1>>

(***************************************************************************)
(* C30 (checked under SpecLive)                                            *)
(***************************************************************************)
\* C30: every call of mys_login that has started returns, having polled at
\* most qrcode_query_times times, and every sign attempt that has started
\* ends (by reaching the report of line 119 or by an error) after at most 3
\* iterations of the verification loop.
C30_Terminates ==
    /\ [](/\ loop_i <= qrcode_query_times
          /\ calls["query_game_token_qrcode"] <= qrcode_query_times
          /\ verify_i <= 3)
    /\ (pc \notin {"off", "idle", "done"}) ~> (pc = "done")
    /\ (spc \in {"sign", "verify_head", "get_validate", "resign"})
          ~> (spc \in {"report", "raised"})

C30_Witness ==
    /\ spc = "report"
    /\ verify_i = 3
    /\ validate_calls = 3
    /\ sign_calls = 4

(***************************************************************************)
(* C31 (checked under Spec)                                                *)
(***************************************************************************)
\* C31: whenever a request to the platform is in flight, every change
\* mys_login has made to the accounts is already in the persistent store.
C31_SavedBeforeNextRequest ==
    pc \in Endpoints => saved_users = users

(***************************************************************************)
(* C37 (checked under SpecSign)                                            *)
(***************************************************************************)
\* C37: during a game sign run no result message is handed to push more
\* than once.
C37_PushedAtMostOnce ==
    \A i, j \in DOMAIN pushed : i # j => pushed[i] # pushed[j]

(***************************************************************************)
(* C38 (checked under SpecWeibo)                                           *)
(***************************************************************************)
\* C38: the TaskResult of a weibo sign run has status success only if the
\* sign-in of every account succeeded.
C38_SuccessOnlyIfAllSigned ==
    (wb_pc = "returned" /\ result.status = "success") =>
        \A i \in DOMAIN data_list : data_list[i] = "signed"

(***************************************************************************)
(* C39 (checked under Spec)                                                *)
(***************************************************************************)
\* the fingerprint the platform issues for a device id
IssuedFor(dev) == <<"fp", dev[2], dev[3]>>

\* C39: the fingerprint cached on a bound account is one issued for the
\* account's own device_id_ios, and a fingerprint exchange that fails
\* leaves a fingerprint cached before it unchanged.
C39_FingerprintOfOwnDevice ==
    /\ [](\A u \in Uids :
            (HasAccountIn(users, u) /\ users[u].accounts[u].device_fp # None)
                => users[u].accounts[u].device_fp
                       = IssuedFor(users[u].accounts[u].device_id_ios))
    /\ [][ (/\ pc = "get_device_fp"
            /\ pc' # "get_device_fp"
            /\ ~StatusBool(fp_status')
            /\ users[bbs_uid].accounts[bbs_uid].device_fp # None)
               => users'[bbs_uid].accounts[bbs_uid].device_fp
                      = users[bbs_uid].accounts[bbs_uid].device_fp ]_vars

(***************************************************************************)
(* C32 (checked under SpecLoginTask)                                       *)
(***************************************************************************)
\* C32: when a login task has ended, it has sent exactly one success
\* notification and nothing else if mys_login succeeded, and no success
\* notification if mys_login failed.
C32_OneSuccessNotification ==
    lt_pc = "done" =>
        IF message_box = <<>>
        THEN lt_notified = <<"success">>
        ELSE \A k \in DOMAIN lt_notified : lt_notified[k] # "success"

(***************************************************************************)
(* C33 (checked under SpecExecute)                                         *)
(***************************************************************************)
\* C33: execute_task_with_logging always ends by returning; when the task
\* function raised, the TaskResult returned has status failed and
\* failure_count 1; when it returned a value that is no TaskResult, exactly
\* one of success_count and failure_count was incremented.
C33_NeverPropagates ==
    /\ ex_pc \in {"off", "start", "task_func", "returned"}
    /\ ex_pc = "returned" =>
        /\ ex_value.kind = "raises" =>
              /\ ex_result.status = "failed"
              /\ ex_result.failure_count = 1
              /\ ex_result.success_count = 0
        /\ ex_value.kind \notin {"raises", "TaskResult"} =>
              /\ ex_logger.success_count + ex_logger.failure_count = 1
              /\ ex_result.success_count = ex_logger.success_count
              /\ ex_result.failure_count = ex_logger.failure_count

C33_Witness ==
    /\ ex_pc = "returned"
    /\ ex_value.kind = "raises"
    /\ ex_result.status = "failed"
    /\ ex_result.failure_count = 1

(***************************************************************************)
(* C34 (checked under SpecFailed)                                          *)
(***************************************************************************)
\* C34: when perform_game_sign or perform_bbs_sign has returned,
\* enable_notice is off if the user has accounts and every one of them
\* failed with an expired login, and is what it was at the call otherwise.
C34_NoticeOffIffAllExpired ==
    fa_pc = "done" =>
        IF /\ fa_accounts # <<>>
           /\ \A k \in DOMAIN fa_accounts : fa_accounts[k] = "login_expired"
        THEN fa_enable_notice = FALSE
        ELSE fa_enable_notice = fa_notice_at_call

C36_EveryEnabledAccountChecked ==
    nc_pc = "returned" =>
        nc_checked = { a \in DOMAIN nc_enabled : nc_enabled[a] }

(***************************************************************************)
(* C40 (checked under SpecPush)                                            *)
(***************************************************************************)
IsSupported(server) == server \in SUPPORTED_PUSH_METHODS

====
